---- MODULE Spec2Model ----
(***************************************************************************)
(* A model of the sorm mapping layer (package sorm): field metadata        *)
(* resolution, row decoding (ScanRows) and the statement-synthesising      *)
(* operations SaveRecord, CreateRecord, ReplaceRecord, DeleteRecord,        *)
(* FindWhere / FindFirstWhere and CountWhere, with TableName and the        *)
(* transaction wrapper SaveRecordWithTransaction.                           *)
(*                                                                         *)
(* Statement texts are real strings, built with the same concatenations as *)
(* the Go code.  Errors are chains of messages: fmt.Errorf("p: %w", e) is  *)
(* <<"p">> \o e, and the nil error is the empty chain.                      *)
(***************************************************************************)
EXTENDS Integers, Sequences, FiniteSets, TLC

VARIABLES
    parameterPrefix,  \* the process-wide placeholder prefix
    queryLogger,      \* the process-wide logger: "none", "before" or "both"
    pc,               \* position of the operation in flight
    op,               \* the operation in flight or last finished
    typ,              \* name of the record type of the call
    given,            \* the caller's record (or target slice) as passed in
    input,            \* the caller's record now (field name -> value)
    fetchID,          \* local `fetchID` of CreateRecord
    where,            \* local `where` of SaveRecord, live across the fetch
    values,           \* local `values` of the operation
    query,            \* text of the statement the connection is working on
    previous,         \* snapshot fetched by SaveRecord / row found by FindFirst
    out,              \* the caller's target slice of FindWhere / ScanRows
    cursor,           \* the result set handed to ScanRows: columns, rows, fail
    trace,            \* hooks invoked, logger calls and statements, in order
    ret,              \* the returned error chain (<<>> is nil)
    result,           \* the returned value of TableName / CountWhere, if any
    built,            \* statements handed to the connection by earlier calls
    txlog,            \* calls that reached the transaction SaveRecord runs in
    descriptionCache, \* the process-wide map from type to description
    callers,          \* concurrent callers of getDescriptionFromType
    fault,            \* what an unsynchronised access to the map led to
    qsorm             \* the qsorm call in progress and what it serialized

\* The state of the description cache and of its concurrent callers.
cachevars == <<descriptionCache, callers, fault>>

vars == <<parameterPrefix, queryLogger, pc, op, typ, given, input, fetchID,
          where, values, query, previous, out, cursor, trace, ret, result,
          built, txlog, descriptionCache, callers, fault, qsorm>>

-----------------------------------------------------------------------------
(* Bounds *)

MaxVal == 1     \* field values are 0..MaxVal; 0 is the zero value
MaxRows == 2    \* rows of a result set handed to ScanRows

MaxCallers == 2 \* goroutines calling getDescriptionFromType concurrently

Values == 0..MaxVal

-----------------------------------------------------------------------------
(* Record types.  A field carries its declared name and its tags:           *)
(*   sql       the value of the sql tag (text before the first comma)       *)
(*   id, ro    the parameters `id` and `readonly` of the sql tag            *)
(*   tparam    the value of the parameter `table:<name>` of the sql tag     *)
(*   table     the value of the separate `table` tag                        *)
(*   readonly  the value of the separate legacy `readonly` tag              *)

Fld(name, sql, id, ro, tparam, table, readonly) ==
    [name |-> name, sql |-> sql, id |-> id, ro |-> ro, tparam |-> tparam,
     table |-> table, readonly |-> readonly]

Plain(name) == Fld(name, "", FALSE, FALSE, "", "", "")

TypeNames == {"SimpleObject", "CompositeIDObject", "AuditObject",
              "LegacyObject", "HookedObject", "HiddenIDObject",
              "DupObject", "OverrideObject"}

\* Inputs that are not pointers to structs: a struct passed by value and a
\* pointer to a named integer, both implementing every hook.
OtherInputs == {"HookedValue", "HookedInt"}

\* reflect.ValueOf(input).Kind(), and the kind of what a pointer points to.
Kind(t) == IF t = "HookedValue" THEN "struct" ELSE "ptr"

ElemKind(t) == IF t = "HookedInt" THEN "int" ELSE "struct"

\* hooks: the type of the input implements every Before*/After* hook.
\* override: the pointer type implements OverrideScanner.
Descriptions ==
    [t \in TypeNames \cup OtherInputs |->
       CASE t = "SimpleObject" ->
              [name |-> t, hooks |-> FALSE, override |-> FALSE,
               fields |-> <<Plain("ID"), Plain("Name"), Plain("Email")>>]
         [] t = "CompositeIDObject" ->
              [name |-> t, hooks |-> FALSE, override |-> FALSE,
               fields |-> <<Fld("ID1", "", TRUE, FALSE, "", "", ""),
                            Fld("ID2", "", TRUE, FALSE, "", "", ""),
                            Plain("Name")>>]
         [] t = "AuditObject" ->
              [name |-> t, hooks |-> FALSE, override |-> FALSE,
               fields |-> <<Fld("Code", "code", TRUE, FALSE, "audits", "", ""),
                            Fld("Note", "-", FALSE, FALSE, "", "", ""),
                            Fld("Stamp", "", FALSE, TRUE, "",
                                "audit_log", "")>>]
         [] t = "LegacyObject" ->
              [name |-> t, hooks |-> FALSE, override |-> FALSE,
               fields |-> <<Plain("ID"),
                            Fld("Owner", "", FALSE, FALSE, "", "", "true")>>]
         [] t = "HookedObject" ->
              [name |-> t, hooks |-> TRUE, override |-> FALSE,
               fields |-> <<Plain("ID"),
                            Fld("Name", "title", FALSE, FALSE, "",
                                "hooked", "")>>]
         [] t = "HiddenIDObject" ->
              [name |-> t, hooks |-> TRUE, override |-> FALSE,
               fields |-> <<Fld("ID", "-", TRUE, FALSE, "", "", ""),
                            Plain("Name")>>]
         [] t = "DupObject" ->
              [name |-> t, hooks |-> FALSE, override |-> FALSE,
               fields |-> <<Fld("A", "x", FALSE, FALSE, "", "", ""),
                            Fld("B", "x", FALSE, FALSE, "", "", "")>>]
         [] t = "HookedValue" ->
              [name |-> t, hooks |-> TRUE, override |-> FALSE,
               fields |-> <<Plain("ID"), Plain("Name")>>]
         [] t = "HookedInt" ->
              [name |-> t, hooks |-> TRUE, override |-> FALSE,
               fields |-> <<>>]
         [] OTHER ->
              [name |-> t, hooks |-> FALSE, override |-> TRUE,
               fields |-> <<Fld("ID", "", TRUE, FALSE, "objects", "", ""),
                            Plain("Value")>>]]

\* getDescriptionFromType: the cached description of a type.
getDescriptionFromType(t) == Descriptions[t]

FieldNames(t) == {Descriptions[t].fields[i].name :
                      i \in 1..Len(Descriptions[t].fields)}

\* The records of a type: every field holds a value.
Records(t) == [FieldNames(t) -> Values]

\* reflect.New(vtyp): every field at its zero value.
ZeroRecord(t) == [n \in FieldNames(t) |-> 0]

NoRecord == [none |-> 0]

-----------------------------------------------------------------------------
(* Naming *)

\* snaker.CamelToSnake on the identifiers of the record types above.
CamelToSnake(s) ==
    CASE s = "ID" -> "id"
      [] s = "ID1" -> "id_1"
      [] s = "ID2" -> "id_2"
      [] s = "Name" -> "name"
      [] s = "Email" -> "email"
      [] s = "Code" -> "code"
      [] s = "Note" -> "note"
      [] s = "Stamp" -> "stamp"
      [] s = "Owner" -> "owner"
      [] s = "Value" -> "value"
      [] s = "A" -> "a"
      [] s = "B" -> "b"
      [] s = "SimpleObject" -> "simple_object"
      [] s = "CompositeIDObject" -> "composite_id_object"
      [] s = "AuditObject" -> "audit_object"
      [] s = "LegacyObject" -> "legacy_object"
      [] s = "HookedObject" -> "hooked_object"
      [] s = "HiddenIDObject" -> "hidden_id_object"
      [] s = "DupObject" -> "dup_object"
      [] s = "OverrideObject" -> "override_object"
      [] OTHER -> s

\* Fields().WithoutTagValue("sql", "-")
WithoutExcluded(l) == LET keep(f) == f.sql # "-" IN SelectSeq(l, keep)

\* Fields().WithTagValue("sql", name)
WithTagValue(l, name) == LET hit(f) == f.sql = name IN SelectSeq(l, hit)

\* vdesc.Field(name): the fields with that declared name (at most one here).
FieldNamed(l, name) == LET hit(f) == f.name = name IN SelectSeq(l, hit)

\* A faulty getSQLTableName: only the separate `table` tag is consulted, the
\* `table:<name>` parameter of the sql tag is ignored.
getSQLTableNameTagOnly(vdesc) ==
    LET l == vdesc.fields
        scan[k \in 1..(Len(l) + 1)] ==
            IF k > Len(l) THEN CamelToSnake(vdesc.name) \o "s"
            ELSE IF l[k].table # "" THEN l[k].table
            ELSE scan[k + 1]
    IN scan[1]

getSQLTableName(vdesc) ==
    LET l == vdesc.fields
        scan[k \in 1..(Len(l) + 1)] ==
            IF k > Len(l) THEN CamelToSnake(vdesc.name) \o "s"
            ELSE IF l[k].table # "" THEN l[k].table
            ELSE IF l[k].tparam # "" THEN l[k].tparam
            ELSE scan[k + 1]
    IN scan[1]

getSQLColumnName(f) == IF f.sql # "" THEN f.sql ELSE CamelToSnake(f.name)

\* A faulty getSQLIDFields: the flagged fields are collected from all fields,
\* the excluded ones among them.
getSQLIDFieldsOfAll(vdesc) ==
    LET flagged(f) == f.id
        r == SelectSeq(vdesc.fields, flagged)
        dflt == FieldNamed(vdesc.fields, "ID")
    IN IF Len(r) > 0 THEN r
       ELSE IF Len(dflt) > 0 /\ dflt[1].sql # "-" THEN <<dflt[1]>>
       ELSE <<>>

getSQLIDFields(vdesc) ==
    LET flagged(f) == f.id
        r == SelectSeq(WithoutExcluded(vdesc.fields), flagged)
        dflt == FieldNamed(vdesc.fields, "ID")
    IN IF Len(r) > 0 THEN r
       ELSE IF Len(dflt) > 0 /\ dflt[1].sql # "-" THEN <<dflt[1]>>
       ELSE <<>>

\* A faulty makeParameter: the configured prefix is not consulted.
makeParameterDollar(prefix, n) == "$" \o ToString(n)

makeParameter(prefix, n) ==
    (IF prefix = "" THEN "$" ELSE prefix) \o ToString(n)

\* A faulty isZero: the kind of the value is missing from its switch, so no
\* value is recognised as zero.
isZeroNever(v) == FALSE

isZero(v) == v = 0

\* strings.Join
Join(a, sep) ==
    LET j[k \in 0..Len(a)] ==
            IF k = 0 THEN ""
            ELSE IF k = 1 THEN a[1]
            ELSE j[k - 1] \o sep \o a[k]
    IN j[Len(a)]

-----------------------------------------------------------------------------
(* Errors and trace events *)

Nil == <<>>

\* fmt.Errorf(msg + ": %w", err)
Wrap(msg, err) == <<msg>> \o err

Ev(k, name, text, args, err) ==
    [k |-> k, name |-> name, text |-> text, args |-> args, err |-> err]

\* queryLogger.LogQuery, when a logger is installed
LogQuery(logger, q, args) ==
    IF logger # "none" THEN <<Ev("log", "LogQuery", q, args, Nil)>> ELSE <<>>

\* A faulty after-call: it is made on the success path only.
LogQueryAfterOnSuccess(logger, q, args, err) ==
    IF logger = "both" /\ err = Nil
    THEN <<Ev("logafter", "LogQueryAfter", q, args, err)>>
    ELSE <<>>

\* queryLogger.LogQueryAfter, when the logger implements QueryLoggerAfter
LogQueryAfter(logger, q, args, err) ==
    IF logger = "both" THEN <<Ev("logafter", "LogQueryAfter", q, args, err)>>
    ELSE <<>>

\* A statement handed to the connection: kind is "query", "exec" or "queryrow".
Stmt(kind, q, args) == Ev(kind, "", q, args, Nil)

HookCall(name, err) == Ev("hook", name, "", <<>>, err)

IsStmt(e) == e.k \in {"query", "exec", "queryrow"}

Stmts(tr) == SelectSeq(tr, IsStmt)

-----------------------------------------------------------------------------
(* ScanRows *)

\* The column resolution of ScanRows for one column name: the declared name
\* of the field it binds, as a sequence of length one, or <<>> when none.
ResolveColumn(vdesc, name) ==
    LET l == WithTagValue(vdesc.fields, name)
        f == FieldNamed(vdesc.fields, name)
        snake(g) == CamelToSnake(g.name) = name
        s == SelectSeq(vdesc.fields, snake)
    IN IF Len(l) = 1 THEN <<l[1].name>>
       ELSE IF Len(f) > 0 THEN <<f[1].name>>
       ELSE IF Len(s) > 0 THEN <<s[1].name>>
       ELSE <<>>

\* The `missing` list after the resolution loop.
MissingColumns(vdesc, names) ==
    LET unresolved(n) == ResolveColumn(vdesc, n) = <<>>
    IN SelectSeq(names, unresolved)

\* The `indexes` list after the resolution loop (all columns resolved).
Indexes(vdesc, names) ==
    [i \in 1..Len(names) |-> ResolveColumn(vdesc, names[i])[1]]

\* OverrideScan of OverrideObject: a custom target for the field Value, the
\* slot of every other field left empty.
OverrideSlots(goNames) ==
    [i \in 1..Len(goNames) |-> goNames[i] = "Value"]

\* A faulty target list: the slots OverrideScan filled are not looked at.
ScanTargetsFieldOnly(vdesc, idx) ==
    [i \in 1..Len(idx) |-> [kind |-> "field", field |-> idx[i]]]

\* The scan targets of one row: the custom target when the slot was filled,
\* the address of the resolved field otherwise.
ScanTargets(vdesc, idx) ==
    [i \in 1..Len(idx) |->
        IF vdesc.override /\ OverrideSlots(idx)[i]
        THEN [kind |-> "custom", field |-> idx[i]]
        ELSE [kind |-> "field", field |-> idx[i]]]

\* A faulty rows.Scan binding: column k is stored into the k-th declared
\* field, whatever field the column resolved to.
ScanRowPositional(t, targets, row) ==
    LET l == Descriptions[t].fields
        st[k \in 0..Len(targets)] ==
            IF k = 0 THEN ZeroRecord(t)
            ELSE IF k > Len(l) THEN st[k - 1]
            ELSE [st[k - 1] EXCEPT ![l[k].name] = row[k]]
    IN st[Len(targets)]

\* rows.Scan(args...): the value of column i is stored through target i, for
\* i = 1, 2, ... in this order, into the fresh record v.
ScanRow(t, targets, row) ==
    LET st[k \in 0..Len(targets)] ==
            IF k = 0 THEN ZeroRecord(t)
            ELSE [st[k - 1] EXCEPT ![targets[k].field] = row[k]]
    IN st[Len(targets)]

\* A result set: the column names, the rows that rows.Next delivered, and how
\* the cursor ends: "none" (exhausted), "scan" (rows.Scan fails on the last
\* delivered row), "override" (OverrideScan fails on the last delivered
\* row), "next" (the cursor breaks after the delivered rows: rows.Next
\* returns false and rows.Err is set), "close" (rows.Close fails).
Cursor(columns, rows, fail) ==
    [columns |-> columns, rows |-> rows, fail |-> fail]

NoCursor == Cursor(<<>>, <<>>, "none")

\* The calls ScanRows makes for the rows it reads: per row OverrideScan
\* (when the type has the capability) with the field names of the columns
\* and as many empty slots, and then rows.Scan with the targets, which is
\* not reached on the row whose OverrideScan failed.
RowCalls(vdesc, n, fail, idx) ==
    LET slots == [i \in 1..Len(idx) |-> FALSE]
        one(i) == (IF vdesc.override
                   THEN <<Ev("cursor", "OverrideScan", "", <<idx, slots>>,
                             Nil)>>
                   ELSE <<>>)
                  \o (IF i = n /\ fail = "override" /\ vdesc.override
                      THEN <<>>
                      ELSE <<Ev("cursor", "Scan", "",
                                ScanTargets(vdesc, idx), Nil)>>)
        all[i \in 0..n] == IF i = 0 THEN <<>> ELSE all[i - 1] \o one(i)
    IN all[n]

\* A faulty store: the decoded rows are appended to what the caller's slice
\* held.
StoreAppended(target, arr) == target \o arr

\* ptr.Elem().Set(arr): the caller's slice is replaced by the decoded rows.
StoreResult(target, arr) == arr

ScanRows(t, cur, target) ==
    LET vdesc == getDescriptionFromType(t)
        missing == MissingColumns(vdesc, cur.columns)
        n == Len(cur.rows)
        failing == cur.fail \in {"scan", "override"} /\ n > 0
                   /\ (cur.fail = "override" => vdesc.override)
        idx == Indexes(vdesc, cur.columns)
        arr == [i \in 1..n |-> ScanRow(t, ScanTargets(vdesc, idx), cur.rows[i])]
    IN IF Len(missing) > 0
       THEN [err |-> <<"couldn't find fields on " \o vdesc.name
                       \o " for these sql fields: ["
                       \o Join(missing, " ") \o "]">>,
             out |-> target, calls |-> <<>>]
       ELSE IF failing /\ cur.fail = "override"
       THEN [err |-> Wrap("could not get scanner overrides",
                          <<"override error">>),
             out |-> target, calls |-> RowCalls(vdesc, n, cur.fail, idx)]
       ELSE IF failing
       THEN [err |-> Wrap("ScanRows", <<"scan error">>),
             out |-> target, calls |-> RowCalls(vdesc, n, cur.fail, idx)]
       ELSE [err |-> Nil, out |-> StoreResult(target, arr),
             calls |-> RowCalls(vdesc, n, cur.fail, idx)]

-----------------------------------------------------------------------------
(* Statement synthesis *)

\* The identity WHERE loop of SaveRecord.
SaveWhereStep(p, f, rec, prefix) ==
    [where |-> p.where \o (IF p.where = "" THEN "where " ELSE " and ")
                       \o getSQLColumnName(f) \o " = "
                       \o makeParameter(prefix, Len(p.values) + 1),
     values |-> Append(p.values, rec[f.name])]

SaveWhere(idFields, rec, prefix) ==
    LET st[k \in 0..Len(idFields)] ==
            IF k = 0 THEN [where |-> "", values |-> <<>>]
            ELSE SaveWhereStep(st[k - 1], idFields[k], rec, prefix)
    IN st[Len(idFields)]

\* The identity WHERE loop of DeleteRecord.
DeleteWhereStep(p, f, rec, prefix) ==
    [where |-> p.where \o (IF p.where = "" THEN "where " ELSE "and ")
                       \o getSQLColumnName(f) \o " = "
                       \o makeParameter(prefix, Len(p.values) + 1),
     values |-> Append(p.values, rec[f.name])]

DeleteWhere(idFields, rec, prefix) ==
    LET st[k \in 0..Len(idFields)] ==
            IF k = 0 THEN [where |-> "", values |-> <<>>]
            ELSE DeleteWhereStep(st[k - 1], idFields[k], rec, prefix)
    IN st[Len(idFields)]

\* A faulty comparison: the reflect.Value wrappers are compared instead of
\* the values they hold, and two wrappers are never equal.
DeepEqualNever(a, b) == FALSE

\* reflect.DeepEqual on two field values.
DeepEqual(a, b) == a = b

\* A faulty diff loop: the legacy standalone readonly marker is not honoured.
SaveSetStepLegacyWritten(p, f, rec, prev, prefix) ==
    IF f.ro THEN p
    ELSE IF DeepEqual(prev[f.name], rec[f.name]) THEN p
    ELSE [fields |-> p.fields \o (IF p.fields = "" THEN "set " ELSE ", ")
                              \o getSQLColumnName(f) \o " = "
                              \o makeParameter(prefix, Len(p.values) + 1),
          values |-> Append(p.values, rec[f.name]),
          modify |-> TRUE]

\* A faulty diff loop: the placeholder is numbered with the length of the
\* argument list before the value is appended, without the + 1.
SaveSetStepOffByOne(p, f, rec, prev, prefix) ==
    IF f.ro THEN p
    ELSE IF f.readonly # "" THEN p
    ELSE IF DeepEqual(prev[f.name], rec[f.name]) THEN p
    ELSE [fields |-> p.fields \o (IF p.fields = "" THEN "set " ELSE ", ")
                              \o getSQLColumnName(f) \o " = "
                              \o makeParameter(prefix, Len(p.values)),
          values |-> Append(p.values, rec[f.name]),
          modify |-> TRUE]

\* The diff loop of SaveRecord: the SET list, the grown argument list and
\* the `modify` flag.
SaveSetStep(p, f, rec, prev, prefix) ==
    IF f.ro THEN p
    ELSE IF f.readonly # "" THEN p
    ELSE IF DeepEqual(prev[f.name], rec[f.name]) THEN p
    ELSE [fields |-> p.fields \o (IF p.fields = "" THEN "set " ELSE ", ")
                              \o getSQLColumnName(f) \o " = "
                              \o makeParameter(prefix, Len(p.values) + 1),
          values |-> Append(p.values, rec[f.name]),
          modify |-> TRUE]

SaveSet(vdesc, rec, prev, prefix, values0) ==
    LET l == WithoutExcluded(vdesc.fields)
        st[k \in 0..Len(l)] ==
            IF k = 0 THEN [fields |-> "", values |-> values0, modify |-> FALSE]
            ELSE SaveSetStep(st[k - 1], l[k], rec, prev, prefix)
    IN st[Len(l)]

\* fmt.Sprintf("update %s %s %s", tbl, fields, where)
UpdateQuery(vdesc, fields, w) ==
    "update " \o getSQLTableName(vdesc) \o " " \o fields \o " " \o w

\* The column loop of CreateRecord.
CreateStep(p, f, rec, prefix) ==
    IF p.basicID /\ f.name = "ID" /\ isZero(rec[f.name])
    THEN [p EXCEPT !.fetchID = TRUE]
    ELSE [p EXCEPT !.a1 = Append(p.a1, getSQLColumnName(f)),
                   !.a2 = Append(p.a2, makeParameter(prefix, Len(p.a1) + 1)),
                   !.values = Append(p.values, rec[f.name])]

CreateColumns(vdesc, rec, prefix) ==
    LET idFields == getSQLIDFields(vdesc)
        l == WithoutExcluded(vdesc.fields)
        st[k \in 0..Len(l)] ==
            IF k = 0
            THEN [a1 |-> <<>>, a2 |-> <<>>, values |-> <<>>, fetchID |-> FALSE,
                  basicID |-> Len(idFields) = 1 /\ idFields[1].name = "ID"]
            ELSE CreateStep(st[k - 1], l[k], rec, prefix)
    IN st[Len(l)]

\* A faulty column loop for ReplaceRecord: as in CreateRecord, a field named
\* ID holding the zero value is left to the database.
ReplaceStepSkipsZeroID(p, f, rec, prefix) ==
    IF f.name = "ID" /\ isZero(rec[f.name]) THEN p
    ELSE [a1 |-> Append(p.a1, getSQLColumnName(f)),
          a2 |-> Append(p.a2, makeParameter(prefix, Len(p.a1) + 1)),
          values |-> Append(p.values, rec[f.name])]

\* The column loop of ReplaceRecord.
ReplaceStep(p, f, rec, prefix) ==
    [a1 |-> Append(p.a1, getSQLColumnName(f)),
     a2 |-> Append(p.a2, makeParameter(prefix, Len(p.a1) + 1)),
     values |-> Append(p.values, rec[f.name])]

ReplaceColumns(vdesc, rec, prefix) ==
    LET l == WithoutExcluded(vdesc.fields)
        st[k \in 0..Len(l)] ==
            IF k = 0 THEN [a1 |-> <<>>, a2 |-> <<>>, values |-> <<>>]
            ELSE ReplaceStep(st[k - 1], l[k], rec, prefix)
    IN st[Len(l)]

InsertQuery(verb, vdesc, c) ==
    verb \o " into " \o getSQLTableName(vdesc)
         \o " (" \o Join(c.a1, ", ") \o ") values (" \o Join(c.a2, ", ") \o ")"

DeleteQuery(vdesc, w) == "delete from " \o getSQLTableName(vdesc) \o " " \o w

LastInsertQuery == "select last_insert_rowid()"

\* The query text of CountWhere.
CountQuery(vdesc, w) ==
    "select count(*) from " \o getSQLTableName(vdesc)
        \o (IF w # "" THEN " " \o w ELSE "")

\* The query text of FindWhere.
FindQuery(vdesc, w) ==
    "select * from " \o getSQLTableName(vdesc)
        \o (IF w # "" THEN " " \o w ELSE "")

\* The where fragment FindFirstWhere passes to FindWhere.
FirstWhere(w) == (IF w # "" THEN w \o " " ELSE "") \o "limit 1"

ErrNoRows == <<"sql: no rows in result set">>

\* FindWhere once ScanRows returned r (r is not looked at when the query
\* itself failed).
FindWhereScanned(logger, q, args, resp, target, r) ==
    IF resp.qerr
    THEN [err |-> Wrap("FindWhere", <<"query error">>), out |-> target,
          trace |-> LogQueryAfter(logger, q, args, <<"query error">>)]
    ELSE IF r.err # Nil
    THEN [err |-> r.err, out |-> r.out,
          trace |-> r.calls \o LogQueryAfter(logger, q, args, r.err)]
    ELSE IF resp.cur.fail = "close"
    THEN [err |-> Wrap("FindWhere", <<"close error">>), out |-> r.out,
          trace |-> r.calls
                      \o LogQueryAfter(logger, q, args, <<"close error">>)]
    ELSE [err |-> Nil, out |-> r.out,
          trace |-> r.calls \o LogQueryAfter(logger, q, args, Nil)]

\* FindWhere from the return of QueryContext on: resp is the connection's
\* answer, target the caller's slice.
FindWhereFinish(t, logger, q, args, resp, target) ==
    FindWhereScanned(logger, q, args, resp, target,
                     ScanRows(t, resp.cur, target))

\* A faulty FindFirstWhere: the output record is reset before the row count
\* is looked at, so a call that finds no row leaves it zeroed.
FindFirstFinishZeroed(fw, rec) ==
    IF fw.err # Nil THEN [err |-> fw.err, rec |-> rec]
    ELSE IF Len(fw.out) = 0
    THEN [err |-> ErrNoRows, rec |-> [n \in DOMAIN rec |-> 0]]
    ELSE [err |-> Nil, rec |-> fw.out[1]]

\* FindFirstWhere after FindWhere returned fw: the error and the record.
FindFirstFinish(fw, rec) ==
    IF fw.err # Nil THEN [err |-> fw.err, rec |-> rec]
    ELSE IF Len(fw.out) = 0 THEN [err |-> ErrNoRows, rec |-> rec]
    ELSE [err |-> Nil, rec |-> fw.out[1]]

-----------------------------------------------------------------------------
(* The environment: hooks, the connection and its result sets *)

HookErrs == {Nil, <<"test error">>}

\* A faulty test of the before-hook's result: `err == nil`.
AbortsOnSuccess(herr) == herr = Nil

\* `if err := v.BeforeX(ctx, tx); err != nil { return ... }`
Aborts(herr) == herr # Nil

\* A faulty after-hook call: the hook's error is dropped.
AfterHookSwallowed(msg, herr) == Nil

\* What an operation returns after its after-hook returned herr.
AfterHookResult(msg, herr) == IF herr # Nil THEN Wrap(msg, herr) ELSE Nil

\* The outcomes of a hook of type t: it runs only if t implements it.
HookOutcomes(t) == IF Descriptions[t].hooks THEN HookErrs ELSE {Nil}

\* A faulty hook call: the hook is looked for only once the input was found
\* to be a pointer to a struct.
HookTraceAfterValidation(t, name, herr) ==
    IF Descriptions[t].hooks /\ Kind(t) = "ptr" /\ ElemKind(t) = "struct"
    THEN <<HookCall(name, herr)>>
    ELSE <<>>

\* A faulty hook call: the hook is run twice.
HookTraceTwice(t, name, herr) ==
    IF Descriptions[t].hooks
    THEN <<HookCall(name, herr), HookCall(name, herr)>>
    ELSE <<>>

HookTrace(t, name, herr) ==
    IF Descriptions[t].hooks THEN <<HookCall(name, herr)>> ELSE <<>>

ExecErrs == {Nil, <<"exec error">>}

Prefixes == {"", "?"}

Loggers == {"none", "before", "both"}

\* The columns `select *` returns for the table of t: one per non-excluded
\* field, in declared order.
SelectColumns(t) ==
    LET l == WithoutExcluded(Descriptions[t].fields)
    IN [i \in 1..Len(l) |-> getSQLColumnName(l[i])]

RowsOver(columns, maxRows) ==
    UNION {[1..n -> [1..Len(columns) -> Values]] : n \in 0..maxRows}

\* The ways a cursor over `rows` can end.
FailsOf(t, rows, ends) ==
    (ends \cap {"none", "next", "close"})
        \cup (IF Len(rows) > 0 THEN ends \cap {"scan"} ELSE {})
        \cup (IF Len(rows) > 0 /\ Descriptions[t].override
              THEN ends \cap {"override"} ELSE {})

\* The cursors over the given column lists with at most maxRows rows (one
\* row when the result set has more than two columns), ending in one of
\* `ends`.  ScanRows never reads a cursor with a column it cannot resolve:
\* such a cursor holds at most one row (none when it has more than two
\* columns) and ends in no failure.
CursorsOver(t, columnLists, maxRows, ends) ==
    UNION {IF MissingColumns(Descriptions[t], c) # <<>>
           THEN {Cursor(c, r, "none") :
                    r \in RowsOver(c, IF Len(c) > 2 THEN 0 ELSE 1)}
           ELSE UNION {{Cursor(c, r, f) : f \in FailsOf(t, r, ends)} :
                          r \in RowsOver(c, IF Len(c) > 2 THEN 1
                                                ELSE maxRows)} :
              c \in columnLists}

\* The answers of the connection to the SELECT of a find on type t.
QueryResponses(t) ==
    {[qerr |-> TRUE, cur |-> NoCursor]}
        \cup {[qerr |-> FALSE, cur |-> c] :
                c \in CursorsOver(t, {SelectColumns(t),
                                      Append(SelectColumns(t), "bogus")}, 1,
                                  {"none", "next", "close", "scan",
                                   "override"})}

-----------------------------------------------------------------------------
(* Operations.  An operation runs from its call to its first statement, *)
(* and from the return of each statement to the next one or to its return. *)

Idle == pc = "idle"

\* What a call that returns an error only leaves in `result`.
NoResult == <<>>

\* A call made on the caller's own connection opens no transaction.
NoTx == txlog' = <<>>

\* No call of the qsorm package is in progress.
NoCall == [fn |-> "none"]

\* A call made to this package directly, not through qsorm.
Direct == qsorm' = NoCall

\* SaveRecordWithTransaction has begun a transaction and not yet ended it.
TxOpen == txlog = <<"begin">>

Return(err) ==
    /\ pc' = "done"
    /\ ret' = err

SetParameterPrefix(s) ==
    /\ parameterPrefix' = s
    /\ UNCHANGED <<result, built, cachevars, txlog, qsorm>>
    /\ UNCHANGED <<queryLogger, pc, op, typ, given, input, fetchID, where,
                   values, query, previous, out, cursor, trace, ret>>

SetQueryLogger(q) ==
    /\ queryLogger' = q
    /\ UNCHANGED <<result, built, cachevars, txlog, qsorm>>
    /\ UNCHANGED <<parameterPrefix, pc, op, typ, given, input, fetchID, where,
                   values, query, previous, out, cursor, trace, ret>>

\* A call starts with the frame of the previous one cleared.
\* The validation of the input of Create, Save, Replace and Delete: the
\* error of an input that is not a pointer to a struct, nil otherwise.
InputError(name, t) ==
    IF Kind(t) # "ptr"
    THEN <<name \o ": expected input to be a pointer; was instead "
               \o Kind(t)>>
    ELSE IF ElemKind(t) # "struct"
    THEN <<name \o ": expected input to be pointer to struct; was instead "
               \o "pointer to " \o ElemKind(t)>>
    ELSE Nil

Enter(o, t, rec, cur) ==
    /\ Idle
    /\ op' = o
    /\ typ' = t
    /\ given' = rec
    /\ previous' = NoRecord
    /\ cursor' = cur
    /\ result' = NoResult
    /\ UNCHANGED <<parameterPrefix, queryLogger, built, cachevars>>

\* SaveRecord up to the QueryContext call of the snapshot fetch.
SaveRecord(t, rec) ==
    /\ Enter("save", t, rec, NoCursor)
    /\ input' = rec
    /\ fetchID' = FALSE
    /\ out' = <<>>
    /\ \E herr \in HookOutcomes(t) :
         LET vdesc == getDescriptionFromType(t)
             idFields == getSQLIDFields(vdesc)
             w == SaveWhere(idFields, rec, parameterPrefix)
             q == FindQuery(vdesc, FirstWhere(w.where))
             tr == HookTrace(t, "BeforeSave", herr)
         IN IF Aborts(herr)
            THEN /\ Return(Wrap(
                        "SaveRecord: BeforeSave callback returned an error",
                        herr))
                 /\ trace' = tr
                 /\ where' = "" /\ values' = <<>> /\ query' = ""
            ELSE IF InputError("SaveRecord", t) # Nil
            THEN /\ Return(InputError("SaveRecord", t))
                 /\ trace' = tr
                 /\ where' = "" /\ values' = <<>> /\ query' = ""
            ELSE IF Len(idFields) = 0
            THEN /\ Return(<<"SaveRecord: couldn't determine ID field(s)">>)
                 /\ trace' = tr
                 /\ where' = "" /\ values' = <<>> /\ query' = ""
            ELSE /\ pc' = "save_select"
                 /\ ret' = Nil
                 /\ where' = w.where
                 /\ values' = w.values
                 /\ query' = q
                 /\ trace' = tr \o LogQuery(queryLogger, q, w.values)
                                \o <<Stmt("query", q, w.values)>>

\* SaveRecord from the return of the snapshot fetch to the ExecContext call
\* of the UPDATE, or to its return.  fw is what FindWhere returned, ff what
\* FindFirstWhere returned, set the outcome of the diff loop, q the UPDATE.
SaveFetched ==
    /\ pc = "save_select"
    /\ \E resp \in QueryResponses(typ) :
       \E fw \in {FindWhereFinish(typ, queryLogger, query, values, resp,
                                  <<>>)} :
       \E ff \in {FindFirstFinish(fw, ZeroRecord(typ))} :
       \E set \in {SaveSet(getDescriptionFromType(typ), input, ff.rec,
                           parameterPrefix, values)} :
       \E q \in {UpdateQuery(getDescriptionFromType(typ), set.fields,
                             where)} :
          /\ cursor' = resp.cur
          /\ out' = fw.out
          /\ IF ff.err # Nil
             THEN /\ Return(Wrap("SaveRecord: couldn't find record", ff.err))
                  /\ trace' = trace \o fw.trace
                  /\ UNCHANGED <<previous, values, query>>
             ELSE IF ~set.modify
             THEN /\ Return(Nil)
                  /\ previous' = ff.rec
                  /\ trace' = trace \o fw.trace
                  /\ UNCHANGED <<values, query>>
             ELSE /\ pc' = "save_update"
                  /\ ret' = Nil
                  /\ previous' = ff.rec
                  /\ values' = set.values
                  /\ query' = q
                  /\ trace' = trace \o fw.trace
                                \o LogQuery(queryLogger, q, set.values)
                                \o <<Stmt("exec", q, set.values)>>
    /\ UNCHANGED <<result, built, cachevars, txlog, qsorm>>
    /\ UNCHANGED <<parameterPrefix, queryLogger, op, typ, given, input,
                   fetchID, where>>

\* A faulty SaveRecord: AfterSave is run whatever the UPDATE returned.
SaveUpdatedHookAlways ==
    /\ pc = "save_update"
    /\ \E err \in ExecErrs, herr \in HookOutcomes(typ) :
         LET la == LogQueryAfter(queryLogger, query, values, err)
         IN /\ Return(IF err # Nil THEN Wrap("SaveRecord", err)
                      ELSE AfterHookResult(
                        "SaveRecord: AfterSave callback returned an error",
                        herr))
            /\ trace' = trace \o la \o HookTrace(typ, "AfterSave", herr)
    /\ UNCHANGED <<result, built, cachevars, txlog, qsorm>>
    /\ UNCHANGED <<parameterPrefix, queryLogger, op, typ, given, input,
                   fetchID, where, values, query, previous, out, cursor>>

\* SaveRecord from the return of the UPDATE to its return.
SaveUpdated ==
    /\ pc = "save_update"
    /\ \E err \in ExecErrs, herr \in HookOutcomes(typ) :
         LET la == LogQueryAfter(queryLogger, query, values, err)
         IN IF err # Nil
            THEN /\ Return(Wrap("SaveRecord", err))
                 /\ trace' = trace \o la
            ELSE /\ Return(AfterHookResult(
                        "SaveRecord: AfterSave callback returned an error",
                        herr))
                 /\ trace' = trace \o la \o HookTrace(typ, "AfterSave", herr)
    /\ UNCHANGED <<result, built, cachevars, txlog, qsorm>>
    /\ UNCHANGED <<parameterPrefix, queryLogger, op, typ, given, input,
                   fetchID, where, values, query, previous, out, cursor>>

\* The locals no statement of the call has set yet.
NoStatement == where' = "" /\ values' = <<>> /\ query' = ""

\* CreateRecord up to the ExecContext call of the INSERT.
CreateRecord(t, rec) ==
    /\ Enter("create", t, rec, NoCursor)
    /\ input' = rec
    /\ out' = <<>>
    /\ \E herr \in HookOutcomes(t) :
         LET vdesc == getDescriptionFromType(t)
             idFields == getSQLIDFields(vdesc)
             c == CreateColumns(vdesc, rec, parameterPrefix)
             q == InsertQuery("insert", vdesc, c)
             tr == HookTrace(t, "BeforeCreate", herr)
         IN IF Aborts(herr)
            THEN /\ Return(Wrap(
                        "CreateRecord: BeforeCreate callback returned an error",
                        herr))
                 /\ trace' = tr
                 /\ fetchID' = FALSE
                 /\ NoStatement
            ELSE IF InputError("CreateRecord", t) # Nil
            THEN /\ Return(InputError("CreateRecord", t))
                 /\ trace' = tr
                 /\ fetchID' = FALSE
                 /\ NoStatement
            ELSE IF Len(idFields) = 0
            THEN /\ Return(<<"CreateRecord: couldn't determine ID field(s)">>)
                 /\ trace' = tr
                 /\ fetchID' = FALSE
                 /\ NoStatement
            ELSE /\ pc' = "create_insert"
                 /\ ret' = Nil
                 /\ fetchID' = (c.basicID /\ c.fetchID)
                 /\ where' = ""
                 /\ values' = c.values
                 /\ query' = q
                 /\ trace' = tr \o LogQuery(queryLogger, q, c.values)
                                \o <<Stmt("exec", q, c.values)>>

\* CreateRecord from the return of the INSERT to the QueryRowContext call of
\* the identity fetch, or to its return.
CreateInserted ==
    /\ pc = "create_insert"
    /\ \E err \in ExecErrs, herr \in HookOutcomes(typ) :
         LET la == LogQueryAfter(queryLogger, query, values, err)
         IN IF err # Nil
            THEN /\ Return(Wrap("CreateRecord", err))
                 /\ trace' = trace \o la
                 /\ UNCHANGED query
            ELSE IF fetchID
            THEN /\ pc' = "create_fetchid"
                 /\ ret' = Nil
                 /\ query' = LastInsertQuery
                 /\ trace' = trace \o la
                                \o LogQuery(queryLogger, LastInsertQuery,
                                            values)
                                \o <<Stmt("queryrow", LastInsertQuery, <<>>)>>
            ELSE /\ Return(AfterHookResult(
                        "CreateRecord: AfterCreate callback returned an error",
                        herr))
                 /\ trace' = trace \o la \o HookTrace(typ, "AfterCreate", herr)
                 /\ UNCHANGED query
    /\ UNCHANGED <<result, built, cachevars, txlog, qsorm>>
    /\ UNCHANGED <<parameterPrefix, queryLogger, op, typ, given, input,
                   fetchID, where, values, previous, out, cursor>>

\* The outcomes of the identity fetch: an error, or the generated identity.
FetchOutcomes == {[err |-> <<"fetch error">>, id |-> 0]}
                     \cup {[err |-> Nil, id |-> v] : v \in Values}

\* The single-row result set of the identity fetch.
FetchCursor(r) ==
    IF r.err # Nil THEN Cursor(<<"last_insert_rowid()">>, <<>>, "scan")
    ELSE Cursor(<<"last_insert_rowid()">>, <<<<r.id>>>>, "none")

\* CreateRecord from the return of the identity fetch to its return.
CreateFetchedID ==
    /\ pc = "create_fetchid"
    /\ \E r \in FetchOutcomes, herr \in HookOutcomes(typ) :
         LET la == LogQueryAfter(queryLogger, query, values, r.err)
         IN /\ cursor' = FetchCursor(r)
            /\ IF r.err # Nil
               THEN /\ Return(Wrap("CreateRecord: couldn't fetch insert id",
                                   r.err))
                    /\ trace' = trace \o la
                    /\ UNCHANGED input
               ELSE /\ Return(AfterHookResult(
                         "CreateRecord: AfterCreate callback returned an error",
                         herr))
                    /\ input' = [input EXCEPT !["ID"] = r.id]
                    /\ trace' = trace \o la
                                  \o HookTrace(typ, "AfterCreate", herr)
    /\ UNCHANGED <<result, built, cachevars, txlog, qsorm>>
    /\ UNCHANGED <<parameterPrefix, queryLogger, op, typ, given, fetchID,
                   where, values, query, previous, out>>

\* ReplaceRecord up to the ExecContext call.
ReplaceRecord(t, rec) ==
    /\ Enter("replace", t, rec, NoCursor)
    /\ input' = rec
    /\ fetchID' = FALSE
    /\ out' = <<>>
    /\ \E herr \in HookOutcomes(t) :
         LET vdesc == getDescriptionFromType(t)
             idFields == getSQLIDFields(vdesc)
             c == ReplaceColumns(vdesc, rec, parameterPrefix)
             q == InsertQuery("insert or replace", vdesc, c)
             tr == HookTrace(t, "BeforeReplace", herr)
         IN IF Aborts(herr)
            THEN /\ Return(Wrap(
                        "ReplaceRecord: BeforeReplace callback returned an error",
                        herr))
                 /\ trace' = tr
                 /\ NoStatement
            ELSE IF InputError("ReplaceRecord", t) # Nil
            THEN /\ Return(InputError("ReplaceRecord", t))
                 /\ trace' = tr
                 /\ NoStatement
            ELSE IF Len(idFields) = 0
            THEN /\ Return(<<"ReplaceRecord: couldn't determine ID field(s)">>)
                 /\ trace' = tr
                 /\ NoStatement
            ELSE /\ pc' = "replace_exec"
                 /\ ret' = Nil
                 /\ where' = ""
                 /\ values' = c.values
                 /\ query' = q
                 /\ trace' = tr \o LogQuery(queryLogger, q, c.values)
                                \o <<Stmt("exec", q, c.values)>>

\* ReplaceRecord from the return of the statement to its return.
ReplaceExecuted ==
    /\ pc = "replace_exec"
    /\ \E err \in ExecErrs, herr \in HookOutcomes(typ) :
         LET la == LogQueryAfter(queryLogger, query, values, err)
         IN IF err # Nil
            THEN /\ Return(Wrap("ReplaceRecord", err))
                 /\ trace' = trace \o la
            ELSE /\ Return(AfterHookResult(
                        "ReplaceRecord: AfterReplace callback returned an error",
                        herr))
                 /\ trace' = trace \o la \o HookTrace(typ, "AfterReplace", herr)
    /\ UNCHANGED <<result, built, cachevars, txlog, qsorm>>
    /\ UNCHANGED <<parameterPrefix, queryLogger, op, typ, given, input,
                   fetchID, where, values, query, previous, out, cursor>>

\* DeleteRecord up to the ExecContext call.
DeleteRecord(t, rec) ==
    /\ Enter("delete", t, rec, NoCursor)
    /\ input' = rec
    /\ fetchID' = FALSE
    /\ out' = <<>>
    /\ \E herr \in HookOutcomes(t) :
         LET vdesc == getDescriptionFromType(t)
             idFields == getSQLIDFields(vdesc)
             w == DeleteWhere(idFields, rec, parameterPrefix)
             q == DeleteQuery(vdesc, w.where)
             tr == HookTrace(t, "BeforeDelete", herr)
         IN IF Aborts(herr)
            THEN /\ Return(Wrap(
                        "DeleteRecord: BeforeDelete callback returned an error",
                        herr))
                 /\ trace' = tr
                 /\ NoStatement
            ELSE IF InputError("DeleteRecord", t) # Nil
            THEN /\ Return(InputError("DeleteRecord", t))
                 /\ trace' = tr
                 /\ NoStatement
            ELSE IF Len(idFields) = 0
            THEN /\ Return(<<"DeleteRecord: couldn't determine ID field(s)">>)
                 /\ trace' = tr
                 /\ NoStatement
            ELSE /\ pc' = "delete_exec"
                 /\ ret' = Nil
                 /\ where' = w.where
                 /\ values' = w.values
                 /\ query' = q
                 /\ trace' = tr \o LogQuery(queryLogger, q, w.values)
                                \o <<Stmt("exec", q, w.values)>>

\* DeleteRecord from the return of the statement to its return.
DeleteExecuted ==
    /\ pc = "delete_exec"
    /\ \E err \in ExecErrs, herr \in HookOutcomes(typ) :
         LET la == LogQueryAfter(queryLogger, query, values, err)
         IN IF err # Nil
            THEN /\ Return(Wrap("DeleteRecord", err))
                 /\ trace' = trace \o la
            ELSE /\ Return(AfterHookResult(
                        "DeleteRecord: AfterDelete callback returned an error",
                        herr))
                 /\ trace' = trace \o la \o HookTrace(typ, "AfterDelete", herr)
    /\ UNCHANGED <<result, built, cachevars, txlog, qsorm>>
    /\ UNCHANGED <<parameterPrefix, queryLogger, op, typ, given, input,
                   fetchID, where, values, query, previous, out, cursor>>

\* The where fragments and arguments the callers of the find operations pass.
FindArgs == {[where |-> "", args |-> <<>>],
             [where |-> "where id = $1", args |-> <<1>>]}

\* What the caller's target slice holds before the call.
Targets(t) == {<<>>, <<ZeroRecord(t)>>}

\* What the caller's output record of FindFirstWhere holds before the call.
FirstTargets(t) == {ZeroRecord(t), [n \in FieldNames(t) |-> 1]}

\* FindWhere up to the QueryContext call.
FindWhere(t, a, target) ==
    /\ Enter("find", t, target, NoCursor)
    /\ input' = NoRecord
    /\ fetchID' = FALSE
    /\ out' = target
    /\ LET q == FindQuery(getDescriptionFromType(t), a.where)
       IN /\ pc' = "find_query"
          /\ ret' = Nil
          /\ where' = a.where
          /\ values' = a.args
          /\ query' = q
          /\ trace' = LogQuery(queryLogger, q, a.args)
                         \o <<Stmt("query", q, a.args)>>

\* FindWhere from the return of QueryContext to its return.
FindWhereReturned ==
    /\ pc = "find_query"
    /\ \E resp \in QueryResponses(typ) :
         \E fw \in {FindWhereFinish(typ, queryLogger, query, values, resp,
                                    out)} :
            /\ Return(fw.err)
            /\ cursor' = resp.cur
            /\ out' = fw.out
            /\ trace' = trace \o fw.trace
    /\ UNCHANGED <<result, built, cachevars, txlog, qsorm>>
    /\ UNCHANGED <<parameterPrefix, queryLogger, op, typ, given, input,
                   fetchID, where, values, query, previous>>

\* FindFirstWhere up to the QueryContext call of FindWhere; rec is what the
\* caller's output record holds.
FindFirstWhere(t, a, rec) ==
    /\ Enter("findfirst", t, rec, NoCursor)
    /\ input' = rec
    /\ fetchID' = FALSE
    /\ out' = <<>>
    /\ LET q == FindQuery(getDescriptionFromType(t), FirstWhere(a.where))
       IN /\ pc' = "findfirst_query"
          /\ ret' = Nil
          /\ where' = a.where
          /\ values' = a.args
          /\ query' = q
          /\ trace' = LogQuery(queryLogger, q, a.args)
                         \o <<Stmt("query", q, a.args)>>

\* FindFirstWhere from the return of QueryContext to its return.
FindFirstReturned ==
    /\ pc = "findfirst_query"
    /\ \E resp \in QueryResponses(typ) :
         \E fw \in {FindWhereFinish(typ, queryLogger, query, values, resp,
                                    <<>>)} :
         \E ff \in {FindFirstFinish(fw, input)} :
            /\ Return(ff.err)
            /\ cursor' = resp.cur
            /\ out' = fw.out
            /\ input' = ff.rec
            /\ trace' = trace \o fw.trace
    /\ UNCHANGED <<result, built, cachevars, txlog, qsorm>>
    /\ UNCHANGED <<parameterPrefix, queryLogger, op, typ, given, fetchID,
                   where, values, query, previous>>

-----------------------------------------------------------------------------
(* ScanRows on its own: the caller hands a cursor and a target slice. *)

\* The column lists of the result sets handed to ScanRows for type t: the
\* table's columns in every order, declared names, doubled and unknown
\* columns.
Reorderings(c) ==
    {[i \in 1..Len(c) |-> c[p[i]]] :
        p \in {f \in [1..Len(c) -> 1..Len(c)] :
                  \A i, j \in 1..Len(c) : f[i] = f[j] => i = j}}

ScanColumnLists(t) ==
    LET l == Descriptions[t].fields
        sel == SelectColumns(t)
    IN Reorderings(sel)
         \cup {<<l[1].name>>, <<l[1].name, CamelToSnake(l[1].name)>>,
               <<CamelToSnake(l[1].name), l[1].name>>,
               <<CamelToSnake(l[Len(l)].name)>>,
               <<"bogus">>, <<"nope", sel[1], "bogus">>, <<"x">>}

ScanRowsCall(t, cur, target) ==
    /\ Enter("scan", t, target, cur)
    /\ pc' = "scan"
    /\ out' = target
    /\ input' = NoRecord
    /\ fetchID' = FALSE
    /\ NoStatement
    /\ trace' = <<>>
    /\ ret' = Nil

ScanRowsReturned ==
    /\ pc = "scan"
    /\ \E r \in {ScanRows(typ, cursor, out)} :
          /\ Return(r.err)
          /\ out' = r.out
          /\ trace' = r.calls
    /\ UNCHANGED <<result, built, cachevars, txlog, qsorm>>
    /\ UNCHANGED <<parameterPrefix, queryLogger, op, typ, given, input,
                   fetchID, where, values, query, previous, cursor>>

\* db.BeginTx: the transaction is opened, or the call fails.
BeginErrs == {Nil, <<"begin error">>}

\* tx.Commit of database/sql: the driver commits ("ok"), the driver fails to
\* commit ("fail"; the Tx is done all the same), or the context is already
\* cancelled and Commit returns its error without reaching the driver
\* ("canceled").
CommitOutcomes == {"ok", "fail", "canceled"}

\* A faulty wrapper: the rollback on exit is missing, a failed SaveRecord
\* leaves the transaction open.
TxEndNoRollback(err, c) ==
    IF err # Nil
    THEN [ret |-> Wrap("SaveRecordWithTransaction", err), log |-> <<>>]
    ELSE IF c = "ok" THEN [ret |-> Nil, log |-> <<"commit">>]
    ELSE IF c = "fail"
    THEN [ret |-> Wrap("SaveRecordWithTransaction: couldn't commit transaction",
                       <<"commit error">>),
          log |-> <<"commit failed">>]
    ELSE [ret |-> Wrap("SaveRecordWithTransaction: couldn't commit transaction",
                       <<"context canceled">>),
          log |-> <<>>]

\* SaveRecordWithTransaction once SaveRecord returned err: what it returns,
\* and the calls that reach the transaction, the deferred tx.Rollback
\* included.  A Rollback on a Tx that Commit has finished returns ErrTxDone
\* and reaches nothing.
TxEnd(err, c) ==
    IF err # Nil
    THEN [ret |-> Wrap("SaveRecordWithTransaction", err),
          log |-> <<"rollback">>]
    ELSE IF c = "ok" THEN [ret |-> Nil, log |-> <<"commit">>]
    ELSE IF c = "fail"
    THEN [ret |-> Wrap("SaveRecordWithTransaction: couldn't commit transaction",
                       <<"commit error">>),
          log |-> <<"commit failed">>]
    ELSE [ret |-> Wrap("SaveRecordWithTransaction: couldn't commit transaction",
                       <<"context canceled">>),
          log |-> <<"rollback">>]

\* SaveRecordWithTransaction up to the first statement of SaveRecord, or to
\* its return when no transaction could be opened.
SaveRecordWithTransaction(t, rec) ==
    \E berr \in BeginErrs :
        IF berr # Nil
        THEN /\ Enter("savetx", t, rec, NoCursor)
             /\ input' = rec
             /\ fetchID' = FALSE
             /\ out' = <<>>
             /\ trace' = <<>>
             /\ NoStatement
             /\ txlog' = <<>>
             /\ Return(Wrap(
                    "SaveRecordWithTransaction: couldn't open a transaction",
                    berr))
        ELSE /\ SaveRecord(t, rec)
             /\ txlog' = <<"begin">>

\* SaveRecordWithTransaction from the return of SaveRecord to its own.
SaveTxReturned ==
    /\ pc = "done"
    /\ op = "save"
    /\ TxOpen
    /\ op' = "savetx"
    /\ \E c \in CommitOutcomes :
         \E e \in {TxEnd(ret, c)} :
            /\ ret' = e.ret
            /\ txlog' = txlog \o e.log
    /\ UNCHANGED <<parameterPrefix, queryLogger, pc, typ, given, input,
                   fetchID, where, values, query, previous, out, cursor,
                   trace, result, built, cachevars, qsorm>>

\* CountWhere up to the QueryRowContext call.
CountWhere(t, a) ==
    /\ Enter("count", t, ZeroRecord(t), NoCursor)
    /\ input' = ZeroRecord(t)
    /\ fetchID' = FALSE
    /\ out' = <<>>
    /\ LET q == CountQuery(getDescriptionFromType(t), a.where)
       IN /\ pc' = "count_query"
          /\ ret' = Nil
          /\ where' = a.where
          /\ values' = a.args
          /\ query' = q
          /\ trace' = LogQuery(queryLogger, q, a.args)
                         \o <<Stmt("queryrow", q, a.args)>>

\* The outcomes of the count query: an error of the query or of the Scan of
\* its row, or the count.
CountOutcomes == {[err |-> <<"count error">>, n |-> 0]}
                     \cup {[err |-> Nil, n |-> v] : v \in Values}

\* CountWhere from the return of QueryRowContext(...).Scan to its return.
CountReturned ==
    /\ pc = "count_query"
    /\ \E r \in CountOutcomes :
         /\ trace' = trace \o LogQueryAfter(queryLogger, query, values, r.err)
         /\ IF r.err # Nil
            THEN /\ Return(Wrap("CountWhere", r.err))
                 /\ result' = <<0>>
            ELSE /\ Return(Nil)
                 /\ result' = <<r.n>>
    /\ UNCHANGED <<built, cachevars, txlog, qsorm>>
    /\ UNCHANGED <<parameterPrefix, queryLogger, op, typ, given, input,
                   fetchID, where, values, query, previous, out, cursor>>

\* TableName: the table of the type of v.  It touches no connection.
TableName(t) ==
    /\ Idle
    /\ op' = "tablename"
    /\ typ' = t
    /\ given' = ZeroRecord(t)
    /\ input' = ZeroRecord(t)
    /\ result' = <<getSQLTableName(getDescriptionFromType(t))>>
    /\ Return(Nil)
    /\ UNCHANGED <<parameterPrefix, queryLogger, fetchID, where, values,
                   query, previous, out, cursor, trace, built, cachevars>>

-----------------------------------------------------------------------------
(* getDescriptionFromType called from several goroutines.  The map is read   *)
(* and written without a lock; a store takes from GetStoreBegin to            *)
(* GetStoreEnd.  An access that overlaps a store of another goroutine is a    *)
(* data race: the runtime may stop the process with a fatal error, or let    *)
(* the access go on, and overlapping stores may leave the map without one of *)
(* the entries.                                                              *)

Callers == 1..MaxCallers

\* The types the concurrent callers ask for.
CacheTypes == {"SimpleObject", "HookedObject"}

\* A description: the type it describes and the caller that computed it.
Entry(t, c) == [of |-> t, by |-> c]

NoEntry == Entry("", 0)

IdleCaller == [pc |-> "idle", typ |-> "", d |-> NoEntry, got |-> NoEntry]

Storing(c) == callers[c].pc = "storing"

\* Another goroutine is in the middle of a store.
OtherStoring(c) == \E o \in Callers \ {c} : Storing(o)

Running == fault = "none"

\* What a read of the map for type t by caller c can see: the entry, or,
\* when a store of that key by another goroutine is under way, also the
\* entry being stored.
ReadsOf(c, t) ==
    {descriptionCache[t]}
        \cup {callers[o].d : o \in {o \in Callers \ {c} :
                                      Storing(o) /\ callers[o].typ = t}}

\* What the runtime makes of an access by caller c: nothing when no store of
\* another goroutine is under way, else nothing or the fatal error `kind`.
FaultsOf(c, kind) == IF OtherStoring(c) THEN {"none", kind} ELSE {"none"}

GetCall(c, t) ==
    /\ Running
    /\ callers[c].pc = "idle"
    /\ callers' = [callers EXCEPT ![c] = [IdleCaller EXCEPT !.pc = "lookup",
                                                           !.typ = t]]
    /\ UNCHANGED <<descriptionCache, fault>>

\* `if _, ok := descriptionCache[typ]; !ok`
GetLookup(c) ==
    /\ Running
    /\ callers[c].pc = "lookup"
    /\ \E e \in ReadsOf(c, callers[c].typ) :
         callers' = [callers EXCEPT
                        ![c].pc = IF e = NoEntry THEN "compute" ELSE "reread"]
    /\ fault' \in FaultsOf(c, "concurrent map read and map write")
    /\ UNCHANGED descriptionCache

\* reflectutil.GetDescriptionFromType(typ): a fresh description.
GetCompute(c) ==
    /\ Running
    /\ callers[c].pc = "compute"
    /\ callers' = [callers EXCEPT ![c].pc = "store",
                                  ![c].d = Entry(callers[c].typ, c)]
    /\ UNCHANGED <<descriptionCache, fault>>

\* `descriptionCache[typ] = d` begins.
GetStoreBegin(c) ==
    /\ Running
    /\ callers[c].pc = "store"
    /\ callers' = [callers EXCEPT ![c].pc = "storing"]
    /\ fault' \in FaultsOf(c, "concurrent map writes")
    /\ UNCHANGED descriptionCache

\* `descriptionCache[typ] = d` ends: the entry is in the map; when another
\* store is still under way the map may have lost the entry instead.
GetStoreEnd(c) ==
    /\ Running
    /\ callers[c].pc = "storing"
    /\ callers' = [callers EXCEPT ![c].pc = "reread"]
    /\ descriptionCache' \in
          {[descriptionCache EXCEPT ![callers[c].typ] = callers[c].d]}
              \cup (IF OtherStoring(c)
                    THEN {[descriptionCache EXCEPT ![callers[c].typ] = NoEntry]}
                    ELSE {})
    /\ UNCHANGED fault

\* `return descriptionCache[typ], nil`
GetReread(c) ==
    /\ Running
    /\ callers[c].pc = "reread"
    /\ \E e \in ReadsOf(c, callers[c].typ) :
         callers' = [callers EXCEPT ![c].pc = "done", ![c].got = e]
    /\ fault' \in FaultsOf(c, "concurrent map read and map write")
    /\ UNCHANGED descriptionCache

\* The caller takes the description.
GetReturn(c) ==
    /\ Running
    /\ callers[c].pc = "done"
    /\ callers' = [callers EXCEPT ![c] = IdleCaller]
    /\ UNCHANGED <<descriptionCache, fault>>

\* The operations of one goroutine at a time are not part of this.
NoOperation ==
    UNCHANGED <<parameterPrefix, queryLogger, pc, op, typ, given, input,
                fetchID, where, values, query, previous, out, cursor, trace,
                ret, result, built, txlog, qsorm>>

\* The frame of a call is gone once the caller has taken its result.
ClearFrame ==
    /\ pc' = "idle"
    /\ op' = "none"
    /\ typ' = "SimpleObject"
    /\ given' = NoRecord
    /\ input' = NoRecord
    /\ fetchID' = FALSE
    /\ where' = ""
    /\ values' = <<>>
    /\ query' = ""
    /\ previous' = NoRecord
    /\ out' = <<>>
    /\ cursor' = NoCursor
    /\ trace' = <<>>
    /\ ret' = Nil
    /\ result' = NoResult
    /\ txlog' = <<>>
    /\ qsorm' = NoCall
    /\ UNCHANGED <<parameterPrefix, queryLogger>>

\* The caller takes the result; the frame of the call is dropped.
Finish ==
    /\ pc = "done"
    /\ ~TxOpen
    /\ ClearFrame
    /\ UNCHANGED <<built, cachevars>>

\* What the connection keeps of a statement it was handed: its text, with
\* the call that built it and the prefix in force when it was built.
Built(s) ==
    [text |-> s.text, prefix |-> parameterPrefix, op |-> op, typ |-> typ,
     fetch |-> fetchID]

\* As Finish, with the first statement of the call staying with the
\* connection that executed it.
FinishKeeping ==
    /\ pc = "done"
    /\ ~TxOpen
    /\ ClearFrame
    /\ built' = IF Stmts(trace) = <<>> THEN built
                ELSE <<Built(Stmts(trace)[1])>>
    /\ UNCHANGED cachevars

Init ==
    /\ parameterPrefix = ""
    /\ queryLogger = "none"
    /\ pc = "idle"
    /\ op = "none"
    /\ typ = "SimpleObject"
    /\ given = NoRecord
    /\ input = NoRecord
    /\ fetchID = FALSE
    /\ where = ""
    /\ values = <<>>
    /\ query = ""
    /\ previous = NoRecord
    /\ out = <<>>
    /\ cursor = NoCursor
    /\ trace = <<>>
    /\ ret = Nil
    /\ result = NoResult
    /\ built = <<>>
    /\ txlog = <<>>
    /\ descriptionCache = [t \in CacheTypes |-> NoEntry]
    /\ callers = [c \in Callers |-> IdleCaller]
    /\ fault = "none"
    /\ qsorm = NoCall

Next ==
    \/ \E s \in Prefixes : Idle /\ SetParameterPrefix(s)
    \/ \E q \in Loggers : Idle /\ SetQueryLogger(q)
    \/ Finish
    \/ Idle /\ NoTx /\ Direct /\ \E t \in TypeNames : \E rec \in Records(t) : SaveRecord(t, rec)
    \/ SaveFetched
    \/ SaveUpdated
    \/ Idle /\ NoTx /\ Direct /\ \E t \in TypeNames : \E rec \in Records(t) : CreateRecord(t, rec)
    \/ CreateInserted
    \/ CreateFetchedID
    \/ Idle /\ NoTx /\ Direct /\ \E t \in TypeNames :
                 \E rec \in Records(t) : ReplaceRecord(t, rec)
    \/ ReplaceExecuted
    \/ Idle /\ NoTx /\ Direct /\ \E t \in TypeNames : \E rec \in Records(t) : DeleteRecord(t, rec)
    \/ DeleteExecuted
    \/ Idle /\ NoTx /\ Direct /\ \E t \in TypeNames, a \in FindArgs :
                 \E target \in Targets(t) : FindWhere(t, a, target)
    \/ FindWhereReturned
    \/ Idle /\ NoTx /\ Direct /\ \E t \in TypeNames, a \in FindArgs :
                 \E rec \in FirstTargets(t) : FindFirstWhere(t, a, rec)
    \/ FindFirstReturned
    \/ Idle /\ NoTx /\ Direct /\ \E t \in TypeNames : TableName(t)
    \/ Idle /\ NoTx /\ Direct /\ \E t \in TypeNames, a \in FindArgs : CountWhere(t, a)
    \/ CountReturned

Spec == Init /\ [][Next]_vars

\* The record types of the calls made between prefix changes.
PrefixTypes == {"SimpleObject", "CompositeIDObject", "AuditObject"}

\* Calls that build one placeholder-carrying statement each, interleaved
\* with changes of the prefix; what was executed stays on record.
NextPrefix ==
    \/ \E s \in Prefixes : Idle /\ SetParameterPrefix(s)
    \/ Idle /\ NoTx /\ Direct /\ \E t \in PrefixTypes :
                 \E rec \in Records(t) : CreateRecord(t, rec)
    \/ CreateInserted
    \/ CreateFetchedID
    \/ Idle /\ NoTx /\ Direct /\ \E t \in PrefixTypes :
                 \E rec \in Records(t) : ReplaceRecord(t, rec)
    \/ ReplaceExecuted
    \/ Idle /\ NoTx /\ Direct /\ \E t \in PrefixTypes :
                 \E rec \in Records(t) : DeleteRecord(t, rec)
    \/ DeleteExecuted
    \/ FinishKeeping

SpecPrefix == Init /\ [][NextPrefix]_vars

\* SaveRecord run by SaveRecordWithTransaction in a transaction of its own.
NextTx ==
    \/ \E q \in Loggers : Idle /\ SetQueryLogger(q)
    \/ Idle /\ Direct /\ \E t \in TypeNames :
                 \E rec \in Records(t) : SaveRecordWithTransaction(t, rec)
    \/ SaveFetched
    \/ SaveUpdated
    \/ SaveTxReturned
    \/ Finish

SpecTx == Init /\ [][NextTx]_vars

\* Goroutines asking for descriptions of types, cached or not, at once.
NextCache ==
    \/ \E c \in Callers, t \in CacheTypes : GetCall(c, t) /\ NoOperation
    \/ \E c \in Callers : GetLookup(c) /\ NoOperation
    \/ \E c \in Callers : GetCompute(c) /\ NoOperation
    \/ \E c \in Callers : GetStoreBegin(c) /\ NoOperation
    \/ \E c \in Callers : GetStoreEnd(c) /\ NoOperation
    \/ \E c \in Callers : GetReread(c) /\ NoOperation
    \/ \E c \in Callers : GetReturn(c) /\ NoOperation

SpecCache == Init /\ [][NextCache]_vars

\* ScanRows applied to every cursor and target within the bounds.
NextScan ==
    \/ Idle /\ NoTx /\ Direct /\ \E t \in TypeNames :
                 \E cur \in CursorsOver(t, ScanColumnLists(t), MaxRows,
                                         {"none", "next", "scan", "override"}),
                    target \in Targets(t) : ScanRowsCall(t, cur, target)
    \/ ScanRowsReturned
    \/ Finish

SpecScan == Init /\ [][NextScan]_vars

\* SaveRecord with another goroutine calling SetParameterPrefix at any time:
\* parameterPrefix is a package variable read by makeParameter without
\* synchronisation, so a change lands between any two steps of the call.
NextRace ==
    \/ \E s \in Prefixes : SetParameterPrefix(s)
    \/ Idle /\ NoTx /\ Direct /\ \E t \in PrefixTypes :
                 \E rec \in Records(t) : SaveRecord(t, rec)
    \/ SaveFetched
    \/ SaveUpdated
    \/ Finish

SpecRace == Init /\ [][NextRace]_vars

\* The inputs of the calls below: records with hooks, valid or not.
HookedInputs ==
    {"HookedObject", "HiddenIDObject", "HookedValue", "HookedInt"}

\* Create, Save, Replace and Delete called with inputs that implement the
\* hooks, among them inputs that are not pointers to structs.
NextInput ==
    \/ Idle /\ NoTx /\ Direct /\ \E t \in HookedInputs :
                 \E rec \in Records(t) : SaveRecord(t, rec)
    \/ SaveFetched
    \/ SaveUpdated
    \/ Idle /\ NoTx /\ Direct /\ \E t \in HookedInputs :
                 \E rec \in Records(t) : CreateRecord(t, rec)
    \/ CreateInserted
    \/ CreateFetchedID
    \/ Idle /\ NoTx /\ Direct /\ \E t \in HookedInputs :
                 \E rec \in Records(t) : ReplaceRecord(t, rec)
    \/ ReplaceExecuted
    \/ Idle /\ NoTx /\ Direct /\ \E t \in HookedInputs :
                 \E rec \in Records(t) : DeleteRecord(t, rec)
    \/ DeleteExecuted
    \/ Finish

SpecInput == Init /\ [][NextInput]_vars

-----------------------------------------------------------------------------
(* qsorm: the find operations with the fragment built by a serializer *)

\* The most ordering terms a caller passes.
MaxTerms == 2

\* sqlbuilder.NewSerializer(dialect): the pieces written, the values bound
\* and the first error, in the order of the calls.
NewSerializer == [d |-> <<>>, args |-> <<>>, err |-> Nil]

\* s.D(str): the text is written as it is.
D(s, str) == IF s.err # Nil THEN s ELSE [s EXCEPT !.d = Append(@, str)]

\* s.DC(str, w): the text is written when w holds.
DC(s, str, w) == IF w THEN D(s, str) ELSE s

\* s.F(e.AsExpr): e writes its text and binds its values, or fails.
F(s, e) ==
    IF s.err # Nil THEN s
    ELSE IF e.err # Nil THEN [s EXCEPT !.err = e.err]
    ELSE [d |-> Append(s.d, e.text), args |-> s.args \o e.args, err |-> Nil]

\* s.ToSQL(): the text, the flattened values and the error.
ToSQL(s) == [text |-> Join(s.d, ""), args |-> s.args, err |-> s.err]

\* The serializer of qsorm.FindWhere before ToSQL.  w and ol hold the
\* predicate and the offset/limit when given (<<>> is nil).
FindWhereSerialized(w, order, ol) ==
    LET s0 == IF w # <<>> THEN D(F(D(NewSerializer, "where "), w[1]), " ")
              ELSE NewSerializer
        s1[i \in 0..Len(order)] ==
            IF i = 0 THEN s0
            ELSE D(F(DC(DC(s1[i - 1], "order by ", i = 1), ", ", i # 1),
                     order[i]), " ")
    IN IF ol # <<>> THEN F(s1[Len(order)], ol[1]) ELSE s1[Len(order)]

\* The serializer of qsorm.FindFirstWhere before ToSQL.
FindFirstWhereSerialized(w, order) ==
    LET s0 == IF w # <<>> THEN F(D(NewSerializer, "where "), w[1])
              ELSE NewSerializer
        s1[i \in 0..Len(order)] ==
            IF i = 0 THEN s0
            ELSE F(DC(DC(s1[i - 1], "order by ", i = 1), ", ", i # 1),
                   order[i])
    IN s1[Len(order)]

\* The serializer of qsorm.CountWhere before ToSQL.
CountWhereSerialized(w) ==
    IF w # <<>> THEN D(F(D(NewSerializer, "where "), w[1]), " ")
    ELSE NewSerializer

\* What the callers pass: predicates, ordering terms, an offset/limit; one
\* predicate fails to render.
Exprs == {[text |-> "id = ?", args |-> <<1>>, err |-> Nil],
          [text |-> "", args |-> <<>>, err |-> <<"render error">>]}

Wheres == {<<>>} \cup {<<e>> : e \in Exprs}

OrderingTerms == {[text |-> "name", args |-> <<>>, err |-> Nil],
                  [text |-> "id = ? desc", args |-> <<0>>, err |-> Nil]}

Orders == UNION {[1..n -> OrderingTerms] : n \in 0..MaxTerms}

OffsetLimits ==
    {<<>>, <<[text |-> "limit ? offset ?", args |-> <<1, 0>>, err |-> Nil]>>}

QTypes == {"SimpleObject"}

\* The qsorm call as made, and the pieces its serializer holds.
QCall(fn, w, order, ol, s) ==
    [fn |-> fn, where |-> w, order |-> order, offsetLimit |-> ol, d |-> s.d]

\* `if err != nil { return err }` after ToSQL: nothing of sorm is called.
QReturn(t, rec, inp, o, res, err) ==
    /\ Idle
    /\ op' = "qsorm"
    /\ typ' = t
    /\ given' = rec
    /\ input' = inp
    /\ fetchID' = FALSE
    /\ previous' = NoRecord
    /\ out' = o
    /\ cursor' = NoCursor
    /\ trace' = <<>>
    /\ result' = res
    /\ NoStatement
    /\ Return(err)
    /\ UNCHANGED <<parameterPrefix, queryLogger, built, cachevars>>

\* qsorm.FindWhere up to the QueryContext call of sorm.FindWhere.
QFindWhere(t, w, order, ol, target) ==
    \E s \in {FindWhereSerialized(w, order, ol)} :
        /\ qsorm' = QCall("FindWhere", w, order, ol, s)
        /\ IF ToSQL(s).err # Nil
           THEN QReturn(t, target, NoRecord, target, NoResult, ToSQL(s).err)
           ELSE FindWhere(t, [where |-> ToSQL(s).text,
                              args |-> ToSQL(s).args], target)

\* qsorm.FindFirstWhere up to the QueryContext call of sorm.FindWhere.
QFindFirstWhere(t, w, order, rec) ==
    \E s \in {FindFirstWhereSerialized(w, order)} :
        /\ qsorm' = QCall("FindFirstWhere", w, order, <<>>, s)
        /\ IF ToSQL(s).err # Nil
           THEN QReturn(t, rec, rec, <<>>, NoResult, ToSQL(s).err)
           ELSE FindFirstWhere(t, [where |-> ToSQL(s).text,
                                   args |-> ToSQL(s).args], rec)

\* qsorm.CountWhere up to the QueryRowContext call of sorm.CountWhere.
QCountWhere(t, w) ==
    \E s \in {CountWhereSerialized(w)} :
        /\ qsorm' = QCall("CountWhere", w, <<>>, <<>>, s)
        /\ IF ToSQL(s).err # Nil
           THEN QReturn(t, ZeroRecord(t), ZeroRecord(t), <<>>, <<0>>,
                        ToSQL(s).err)
           ELSE CountWhere(t, [where |-> ToSQL(s).text,
                               args |-> ToSQL(s).args])

\* The find and count operations called through qsorm.
NextQ ==
    \/ Idle /\ NoTx /\ \E t \in QTypes, w \in Wheres, order \in Orders,
                          ol \in OffsetLimits :
                 \E target \in Targets(t) : QFindWhere(t, w, order, ol, target)
    \/ FindWhereReturned
    \/ Idle /\ NoTx /\ \E t \in QTypes, w \in Wheres, order \in Orders :
                 \E rec \in FirstTargets(t) : QFindFirstWhere(t, w, order, rec)
    \/ FindFirstReturned
    \/ Idle /\ NoTx /\ \E t \in QTypes, w \in Wheres : QCountWhere(t, w)
    \/ CountReturned
    \/ Finish

SpecQ == Init /\ [][NextQ]_vars


-----------------------------------------------------------------------------
(* Properties.  The statements below are written from the words of the     *)
(* specification: which fields, which numbers, which texts; the operations *)
(* above are what they are checked against.                                *)

Last(s) == s[Len(s)]

\* The fields of the type of the call that are not excluded.
Persisted == WithoutExcluded(Descriptions[typ].fields)

IdFields == getSQLIDFields(Descriptions[typ])

TableOfCall == getSQLTableName(Descriptions[typ])

\* `column = placeholder` for the fields fs, numbered first, first + 1, ...
Terms(fs, first) ==
    [i \in 1..Len(fs) |->
        getSQLColumnName(fs[i]) \o " = "
            \o makeParameter(parameterPrefix, first + i - 1)]

ColumnsOf(fs) == [i \in 1..Len(fs) |-> getSQLColumnName(fs[i])]

PlaceholdersTo(n) == [i \in 1..n |-> makeParameter(parameterPrefix, i)]

ValuesOf(fs, rec) == [i \in 1..Len(fs) |-> rec[fs[i].name]]

\* The fields Save has to write: not excluded, not readonly in either form,
\* and different from the snapshot; in declared order.
Changed ==
    LET differs(f) == /\ ~f.ro
                      /\ f.readonly = ""
                      /\ input[f.name] # previous[f.name]
    IN SelectSeq(Persisted, differs)

SnapshotFetched == op = "save" /\ previous # NoRecord

\* The UPDATE of a Save is its second statement, after the snapshot SELECT.
UpdateIssued == op = "save" /\ Len(Stmts(trace)) = 2

\* C1: when the snapshot fetch of SaveRecord succeeded and some field has to
\* be written, the UPDATE it executes has as its SET list exactly the fields
\* that are not excluded, not readonly (parameter or legacy marker) and
\* differ from the snapshot, in declared order, and carries the in-memory
\* value of each as its argument; no other column is in the SET list.
C1_SaveSetListIsTheChangedFields ==
    (SnapshotFetched /\ Changed # <<>>) =>
        LET k == Len(IdFields)
            u == Stmts(trace)[2]
        IN /\ UpdateIssued
           /\ u.k = "exec"
           /\ u.text = "update " \o TableOfCall \o " set "
                          \o Join(Terms(Changed, k + 1), ", ") \o " " \o where
           /\ Len(u.args) = k + Len(Changed)
           /\ SubSeq(u.args, k + 1, Len(u.args)) = ValuesOf(Changed, input)

C1_Witness ==
    /\ SnapshotFetched
    /\ pc = "save_update"
    /\ Len(Changed) = 2
    /\ \A i \in 1..Len(IdFields) :
          input[IdFields[i].name] = previous[IdFields[i].name]

\* C2: SaveRecord on a record none of whose non-excluded, non-readonly
\* fields differs from the fetched snapshot executes no UPDATE (the snapshot
\* SELECT is the only statement), returns success and leaves the record as
\* it was passed.
C2_SaveWithoutChangeIsNoOp ==
    (SnapshotFetched /\ Changed = <<>>) =>
        /\ pc = "done"
        /\ ret = Nil
        /\ Len(Stmts(trace)) = 1
        /\ Stmts(trace)[1].k = "query"
        /\ input = given

C2_Witness ==
    /\ SnapshotFetched
    /\ pc = "done"
    /\ previous = input
    /\ typ = "SimpleObject"
    /\ Len(Stmts(trace)) = 1

\* C3: for a type with one or more identity fields the DELETE carries the
\* WHERE text Save builds for the same record and prefix: one term per
\* identity field in declared order, joined by " and ", numbered from 1,
\* with the identity values as arguments in the same order.
C3_DeleteWhereIsSaveWhere ==
    (op = "delete" /\ Len(Stmts(trace)) = 1) =>
        LET d == Stmts(trace)[1]
            w == SaveWhere(IdFields, given, parameterPrefix)
        IN /\ w.where = "where " \o Join(Terms(IdFields, 1), " and ")
           /\ d.text = "delete from " \o TableOfCall \o " " \o w.where
           /\ d.args = ValuesOf(IdFields, given)

\* C4: in the UPDATE of a Save on a type with k identity fields and m
\* changed fields the WHERE placeholders are 1..k and the SET placeholders
\* k+1..k+m, and argument n is the value bound to placeholder n: the
\* identity values first, then the changed values.
C4_UpdatePlaceholdersAreContinuous ==
    UpdateIssued =>
        LET k == Len(IdFields)
            m == Len(Changed)
            u == Stmts(trace)[2]
        IN /\ u.text = "update " \o TableOfCall \o " set "
                          \o Join(Terms(Changed, k + 1), ", ")
                          \o " where " \o Join(Terms(IdFields, 1), " and ")
           /\ u.args = ValuesOf(IdFields, input) \o ValuesOf(Changed, input)
           /\ Len(u.args) = k + m

C4_Witness ==
    /\ UpdateIssued
    /\ Len(IdFields) = 2
    /\ Len(Changed) >= 1
    /\ parameterPrefix = "?"

\* The sole identity field is the field named ID, and the caller passed it
\* with the zero value.
FetchDue ==
    /\ Len(IdFields) = 1
    /\ IdFields[1].name = "ID"
    /\ given["ID"] = 0

\* The fields an INSERT of Create carries.
Inserted ==
    LET notID(f) == f.name # "ID"
    IN IF FetchDue THEN SelectSeq(Persisted, notID) ELSE Persisted

InsertFailed == pc = "done" /\ ret = Wrap("CreateRecord", <<"exec error">>)

\* C5: CreateRecord issues the identity query exactly when the sole identity
\* field is the field named ID and holds the zero value: then the INSERT
\* leaves the ID column out, one identity query follows the successful
\* INSERT and its result is stored in ID.  Otherwise every non-excluded
\* field is in the INSERT in declared order with placeholders 1..n, and no
\* identity query is issued.
C5_CreateFetchesIdentityIffDefaultZeroID ==
    (op = "create" /\ Len(Stmts(trace)) >= 1) =>
        LET st == Stmts(trace)
            fetched == Len(st) >= 2
        IN /\ st[1].k = "exec"
           /\ st[1].text = "insert into " \o TableOfCall
                  \o " (" \o Join(ColumnsOf(Inserted), ", ") \o ") values ("
                  \o Join(PlaceholdersTo(Len(Inserted)), ", ") \o ")"
           /\ st[1].args = ValuesOf(Inserted, given)
           /\ Len(st) <= 2
           /\ fetched => /\ FetchDue
                         /\ st[2].k = "queryrow"
                         /\ st[2].text = "select last_insert_rowid()"
           /\ (pc # "create_insert" /\ ~InsertFailed) => (fetched <=> FetchDue)
           /\ (pc = "done" /\ fetched /\ cursor.rows # <<>>)
                 => input = [given EXCEPT !["ID"] = cursor.rows[1][1]]
           /\ (~fetched \/ pc # "done" \/ cursor.rows = <<>>) => input = given

C5_Witness ==
    /\ op = "create"
    /\ pc = "done"
    /\ FetchDue
    /\ Len(Stmts(trace)) = 2
    /\ ret = Nil
    /\ input["ID"] = 1
    /\ \E i \in 1..Len(Persisted) : given[Persisted[i].name] # 0

WriteOps == {"save", "create", "replace", "delete"}

OpName(o) ==
    CASE o = "save" -> "SaveRecord"
      [] o = "create" -> "CreateRecord"
      [] o = "replace" -> "ReplaceRecord"
      [] o = "delete" -> "DeleteRecord"

HookNoun(o) ==
    CASE o = "save" -> "Save"
      [] o = "create" -> "Create"
      [] o = "replace" -> "Replace"
      [] o = "delete" -> "Delete"

HookError(o, when, herr) ==
    <<OpName(o) \o ": " \o when \o HookNoun(o)
        \o " callback returned an error">> \o herr

BeforeHookFailed ==
    /\ op \in WriteOps
    /\ trace # <<>>
    /\ trace[1].k = "hook"
    /\ trace[1].name = "Before" \o HookNoun(op)
    /\ trace[1].err # Nil

\* C6: when the before-hook of Create, Save, Replace or Delete returns an
\* error, the operation hands no statement to the connection, does not
\* invoke the after-hook (the failed hook call is all that happened) and
\* returns an error that names the hook and wraps the hook's error.
C6_BeforeHookErrorAborts ==
    BeforeHookFailed =>
        /\ pc = "done"
        /\ Len(trace) = 1
        /\ Stmts(trace) = <<>>
        /\ ret = HookError(op, "Before", trace[1].err)
        /\ input = given

C6_Witness ==
    /\ BeforeHookFailed
    /\ op = "save"
    /\ typ = "HookedObject"
    /\ ret = <<"SaveRecord: BeforeSave callback returned an error",
               "test error">>

AfterHookFailed ==
    /\ op \in WriteOps
    /\ trace # <<>>
    /\ Last(trace).k = "hook"
    /\ Last(trace).name = "After" \o HookNoun(op)
    /\ Last(trace).err # Nil

\* The kinds of the statements an operation hands to the connection.
StatementsOf(o) ==
    CASE o = "save" -> <<"query", "exec">>
      [] o = "create" -> IF FetchDue THEN <<"exec", "queryrow">>
                         ELSE <<"exec">>
      [] o = "replace" -> <<"exec">>
      [] o = "delete" -> <<"exec">>

\* C7: when the after-hook of a mutating operation returns an error, the
\* operation returns an error that names the hook and wraps the hook's
\* error; every statement of the operation was handed to the connection
\* before the hook ran and nothing follows the hook; for Create the fetched
\* identity stays in the record.
C7_AfterHookErrorUndoesNothing ==
    AfterHookFailed =>
        LET st == Stmts(trace)
        IN /\ pc = "done"
           /\ ret = HookError(op, "After", Last(trace).err)
           /\ [i \in 1..Len(st) |-> st[i].k] = StatementsOf(op)
           /\ \A i \in 1..(Len(trace) - 1) :
                 ~(trace[i].k = "hook"
                   /\ trace[i].name = "After" \o HookNoun(op))
           /\ (op = "create" /\ FetchDue)
                 => input = [given EXCEPT !["ID"] = cursor.rows[1][1]]
           /\ ~(op = "create" /\ FetchDue) => input = given

C7_Witness ==
    /\ AfterHookFailed
    /\ op = "create"
    /\ FetchDue
    /\ input["ID"] = 1
    /\ ret = <<"CreateRecord: AfterCreate callback returned an error",
               "test error">>

\* A result column matches a field by the field's column-name annotation, by
\* its declared name or by its derived snake-case name.
Matches(f, name) ==
    \/ f.sql = name
    \/ f.name = name
    \/ CamelToSnake(f.name) = name

\* The result columns that match no field of type t, in result order.
Unmatched(t, names) ==
    LET l == Descriptions[t].fields
        none(n) == \A i \in 1..Len(l) : ~Matches(l[i], n)
    IN SelectSeq(names, none)

MissingError(t, names) ==
    <<"couldn't find fields on " \o t \o " for these sql fields: ["
        \o Join(names, " ") \o "]">>

ScanReturned == op = "scan" /\ pc = "done"

\* ScanRows returns one error that is not a wrapped one: the missing-columns
\* error.
IsMissingError(e) == Len(e) = 1

\* C8: if one or more result columns match no field of the target type,
\* ScanRows fails with an error that lists every unmatched column, in result
\* order, and no row is scanned; the error lists no column that did match.
C8_MissingColumnsAreExactlyTheUnmatched ==
    ScanReturned =>
        LET u == Unmatched(typ, cursor.columns)
        IN /\ u # <<>> => /\ ret = MissingError(typ, u)
                          /\ trace = <<>>
                          /\ out = given
           /\ IsMissingError(ret) => ret = MissingError(typ, u)

PermsOf(n) ==
    {p \in [1..n -> 1..n] : \A i, j \in 1..n : p[i] = p[j] => i = j}

PermuteSeq(q, p) == [i \in 1..Len(q) |-> q[p[i]]]

PermuteCursor(cur, p) ==
    Cursor(PermuteSeq(cur.columns, p),
           [i \in 1..Len(cur.rows) |-> PermuteSeq(cur.rows[i], p)],
           cur.fail)

\* ScanRows returned success on a result set all of whose columns match.
ScanSucceeded ==
    /\ ScanReturned
    /\ ret = Nil
    /\ Unmatched(typ, cursor.columns) = <<>>

\* Every reordering of the columns of the result set, the rows reordered
\* with them, decodes to the records the call produced.
ColumnOrderIsIrrelevant ==
    \A p \in PermsOf(Len(cursor.columns)) :
        LET r == ScanRows(typ, PermuteCursor(cursor, p), given)
        IN r.err = Nil /\ r.out = out

\* No two columns of the result set resolve to the same field.
DistinctFields ==
    \A i, j \in 1..Len(cursor.columns) :
        (ResolveColumn(Descriptions[typ], cursor.columns[i])
            = ResolveColumn(Descriptions[typ], cursor.columns[j])) => i = j

\* C9 as stated: two result sets carrying the same rows with the columns
\* permuted, every column matching a field, decode to identical records.
C9_AnyColumnOrderDecodesAlike ==
    ScanSucceeded => ColumnOrderIsIrrelevant

\* C9, amended: two result sets carrying the same rows with the columns
\* permuted, every column matching a field and no two columns resolving to
\* the same field, decode to identical records.
C9_DistinctColumnOrderDecodesAlike ==
    (ScanSucceeded /\ DistinctFields) => ColumnOrderIsIrrelevant

C9_Witness ==
    /\ ScanSucceeded
    /\ DistinctFields
    /\ typ = "CompositeIDObject"
    /\ cursor.columns = <<"name", "id_2", "id_1">>
    /\ cursor.rows = <<<<1, 0, 1>>>>
    /\ out = <<[ID1 |-> 1, ID2 |-> 0, Name |-> 1]>>

\* The decoding of one row: each field holds the value of the column that
\* resolves to it (of the last such column), and its zero value when no
\* column does.
DecodedRow(t, names, row) ==
    [f \in FieldNames(t) |->
        LET js == {j \in 1..Len(names) :
                      ResolveColumn(Descriptions[t], names[j]) = <<f>>}
        IN IF js = {} THEN 0
           ELSE row[CHOOSE j \in js : \A i \in js : i <= j]]

\* C10: after a successful ScanRows the target holds exactly one record per
\* result row, in row order, duplicate rows kept: as many elements as rows
\* were returned, element i the decoding of row i, whatever the target held
\* before the call.
C10_OneRecordPerRowInOrder ==
    (ScanReturned /\ ret = Nil) =>
        /\ Len(out) = Len(cursor.rows)
        /\ \A i \in 1..Len(out) :
              out[i] = DecodedRow(typ, cursor.columns, cursor.rows[i])

C10_Witness ==
    /\ ScanReturned
    /\ ret = Nil
    /\ given # <<>>
    /\ Len(cursor.rows) = 2
    /\ cursor.rows[1] = cursor.rows[2]
    /\ cursor.rows[1] # <<0, 0>>
    /\ Len(out) = 2

-----------------------------------------------------------------------------
(* The table of a type *)

\* The table overrides of a type, one per field that carries any, in declared
\* order.
TableOverrides(t) ==
    LET l == Descriptions[t].fields
        has(f) == f.table # "" \/ f.tparam # ""
        carriers == SelectSeq(l, has)
    IN [i \in 1..Len(carriers) |->
          IF carriers[i].table # "" THEN carriers[i].table
          ELSE carriers[i].tparam]

TableNameReturned == pc = "done" /\ op = "tablename"

\* C11: TableName of a type none of whose fields carries a table override is
\* the snake-case of the type name followed by `s`; of a type with one or
\* more overriding fields (the `table` tag or the `table:<name>` parameter of
\* the sql tag) it is the override of the first of them in declared order,
\* verbatim.
C11_TableNameIsFirstOverrideOrPlural ==
    TableNameReturned =>
        /\ ret = Nil
        /\ result = <<IF TableOverrides(typ) = <<>>
                      THEN CamelToSnake(typ) \o "s"
                      ELSE TableOverrides(typ)[1]>>
        /\ typ = "SimpleObject" => result = <<"simple_objects">>
        /\ typ = "HookedObject" => result = <<"hooked">>
        /\ typ = "OverrideObject" => result = <<"objects">>

\* TableName has answered for a type with two overriding fields, the first of
\* which carries the sql parameter and the second the `table` tag.
C11_Witness ==
    /\ TableNameReturned
    /\ typ = "AuditObject"
    /\ Len(TableOverrides(typ)) = 2
    /\ result = <<"audits">>

-----------------------------------------------------------------------------
(* The placeholder prefix *)

\* The placeholders 1..n under the configured prefix p.
Numbered(p, n) ==
    [i \in 1..n |-> (IF p = "" THEN "$" ELSE p) \o ToString(i)]

\* `column = placeholder` for the fields fs under the configured prefix p.
TermsUnder(p, fs) ==
    [i \in 1..Len(fs) |-> getSQLColumnName(fs[i]) \o " = " \o Numbered(p, i)[i]]

\* The text of the first statement of a create, replace or delete call on
\* type t under the configured prefix p; fetch tells whether the INSERT left
\* the ID column to the database.
TextUnder(p, o, t, fetch) ==
    LET vdesc == Descriptions[t]
        all == WithoutExcluded(vdesc.fields)
        notID(f) == f.name # "ID"
        fs == IF o = "create" /\ fetch THEN SelectSeq(all, notID) ELSE all
    IN IF o = "delete"
       THEN "delete from " \o getSQLTableName(vdesc) \o " where "
                \o Join(TermsUnder(p, getSQLIDFields(vdesc)), "and ")
       ELSE (IF o = "create" THEN "insert" ELSE "insert or replace")
                \o " into " \o getSQLTableName(vdesc)
                \o " (" \o Join(ColumnsOf(fs), ", ") \o ") values ("
                \o Join(Numbered(p, Len(fs)), ", ") \o ")"

\* Every statement of the call in flight carries the prefix now in force,
\* and every statement built by an earlier call the one it was built under.
PlaceholdersFollowPrefix ==
    /\ (op \in {"create", "replace", "delete"} /\ Stmts(trace) # <<>>) =>
           Stmts(trace)[1].text = TextUnder(parameterPrefix, op, typ, fetchID)
    /\ \A i \in 1..Len(built) :
           built[i].text = TextUnder(built[i].prefix, built[i].op,
                                     built[i].typ, built[i].fetch)

\* A step that changes the prefix changes no statement text.
PrefixChangeLeavesStatements ==
    parameterPrefix' # parameterPrefix =>
        /\ built' = built
        /\ trace' = trace
        /\ query' = query

\* C12: every placeholder of a statement synthesized after
\* SetParameterPrefix(p) with p non-empty is p followed by its 1-based
\* position, and after SetParameterPrefix("") it is `$` followed by its
\* position; a change of the prefix leaves the text of every statement built
\* or executed before it as it was.
C12_PrefixAppliesToLaterStatementsOnly ==
    /\ []PlaceholdersFollowPrefix
    /\ [][PrefixChangeLeavesStatements]_vars

\* A statement built under `?` is on record, the prefix has been reset, and
\* the call in flight has built its statement with `$`.
C12_Witness ==
    /\ built # <<>>
    /\ built[1].prefix = "?"
    /\ built[1].typ = "CompositeIDObject"
    /\ built[1].text =
          "insert or replace into composite_id_objects (id_1, id_2, name) "
              \o "values (?1, ?2, ?3)"
    /\ parameterPrefix = ""
    /\ op = "delete"
    /\ typ = "SimpleObject"
    /\ Stmts(trace) # <<>>
    /\ Stmts(trace)[1].text = "delete from simple_objects where id = $1"

-----------------------------------------------------------------------------
(* The query logger *)

\* The logger calls and the statements of the call, in order.
LogView ==
    LET seen(e) == IsStmt(e) \/ e.k \in {"log", "logafter"}
    IN SelectSeq(trace, seen)

ViewKind(e) == IF IsStmt(e) THEN "stmt" ELSE e.k

\* What surrounds one statement under each kind of logger.
LogShape ==
    CASE queryLogger = "both" -> <<"log", "stmt", "logafter">>
      [] queryLogger = "before" -> <<"log", "stmt">>
      [] OTHER -> <<"stmt">>

IsSuffix(e, chain) ==
    /\ Len(e) <= Len(chain)
    /\ SubSeq(chain, Len(chain) - Len(e) + 1, Len(chain)) = e

\* C13: with a logger installed every statement of an operation is preceded
\* by exactly one before-execute call and, when the logger supports it,
\* followed by exactly one after-execute call before the operation returns,
\* on success and on every failure path, the after-call carrying the error
\* the operation returns for that statement; a before-only logger gets
\* exactly one call per statement, and without a logger nothing is called.
C13_LoggerCallsSurroundEveryStatement ==
    LET v == LogView
        n == Len(LogShape)
    IN /\ \A i \in 1..Len(v) : ViewKind(v[i]) = LogShape[((i - 1) % n) + 1]
       /\ pc = "done" => Len(v) % n = 0
       /\ \A i \in 1..Len(v) :
             (v[i].k = "logafter" /\ i < Len(v)) => v[i].err = Nil
       /\ (pc = "done" /\ v # <<>> /\ Last(v).k = "logafter") =>
             /\ Last(v).err # Nil => IsSuffix(Last(v).err, ret)
             /\ ret = Nil => Last(v).err = Nil
             /\ (ret # Nil /\ Last(trace).k = "logafter"
                   /\ ~IsSuffix(ErrNoRows, ret)) => Last(v).err # Nil

\* A FindWhere whose result set failed to close has returned, with a logger
\* that supports both calls: one before-call, the statement, and one
\* after-call carrying the close error.
C13_Witness ==
    /\ pc = "done"
    /\ op = "find"
    /\ queryLogger = "both"
    /\ Len(LogView) = 3
    /\ Last(LogView).k = "logafter"
    /\ Last(LogView).err = <<"close error">>
    /\ ret = Wrap("FindWhere", <<"close error">>)

\* C14: the statement text and the argument list given to the before-execute
\* call and to the after-execute call of a statement are the text and the
\* arguments the connection is handed for it, for every statement of
\* CountWhere, FindWhere, SaveRecord, CreateRecord (INSERT and identity
\* fetch), ReplaceRecord and DeleteRecord.
C14_LoggerSeesWhatTheConnectionGets ==
    LET v == LogView
        same(e, st) == e.text = st.text /\ e.args = st.args
    IN \A i \in 1..Len(v) :
          IsStmt(v[i]) =>
              /\ (i > 1 /\ v[i - 1].k = "log") => same(v[i - 1], v[i])
              /\ (i < Len(v) /\ v[i + 1].k = "logafter") =>
                    same(v[i + 1], v[i])

-----------------------------------------------------------------------------
(* FindFirstWhere *)

FindFirstReturnedDone == op = "findfirst" /\ pc = "done"

\* C15: FindFirstWhere executes `select * from <table> <where> limit 1`
\* (`select * from <table> limit 1` for an empty where fragment) with the
\* caller's arguments; when the statement returns no row it fails with the
\* no-rows error; when a row returns the output record is the decoding of
\* the first row; on every error the output record is as the caller passed
\* it.
C15_FindFirstLimitsAndKeepsOutputOnError ==
    /\ (op = "findfirst" /\ Stmts(trace) # <<>>) =>
          /\ Len(Stmts(trace)) = 1
          /\ Stmts(trace)[1].k = "query"
          /\ Stmts(trace)[1].text =
                "select * from " \o TableOfCall \o " "
                    \o (IF where = "" THEN "" ELSE where \o " ") \o "limit 1"
          /\ Stmts(trace)[1].args = values
    /\ FindFirstReturnedDone =>
          /\ ret = Nil =>
                /\ Len(cursor.rows) >= 1
                /\ input = DecodedRow(typ, cursor.columns, cursor.rows[1])
          /\ ret = ErrNoRows => cursor.rows = <<>>
          /\ cursor.rows = <<>> =>
                \/ ret = ErrNoRows
                \/ ret = Wrap("FindWhere", <<"query error">>)
                \/ ret = Wrap("FindWhere", <<"close error">>)
                \/ /\ MissingColumns(Descriptions[typ], cursor.columns) # <<>>
                   /\ ret # Nil
          /\ ret # Nil => input = given

\* FindFirstWhere has returned the no-rows error to a caller whose output
\* record held values, and the record still holds them.
C15_Witness ==
    /\ FindFirstReturnedDone
    /\ ret = ErrNoRows
    /\ where = "where id = $1"
    /\ \A n \in DOMAIN given : given[n] = 1
    /\ input = given

\* FindFirstWhere has found a row and stored its decoding over what the
\* output record held.
FindFirstFoundRow ==
    /\ FindFirstReturnedDone
    /\ ret = Nil
    /\ input # given

-----------------------------------------------------------------------------
(* The identity set *)

\* The declared names of the identity set of type t, as the claim words it.
IdentitySet(t) ==
    LET l == Descriptions[t].fields
        names(fs) == [i \in 1..Len(fs) |-> fs[i].name]
        flagged(f) == f.id /\ f.sql # "-"
        isID(f) == f.name = "ID" /\ f.sql # "-"
    IN IF SelectSeq(l, flagged) # <<>> THEN names(SelectSeq(l, flagged))
       ELSE names(SelectSeq(l, isID))

MissingIdentityError(o) == <<OpName(o) \o ": couldn't determine ID field(s)">>

\* C16: the identity set of a type is its non-excluded fields flagged `id`,
\* in declared order, or, when there is none, the field named ID if it
\* exists and is not excluded, else empty.  Create, Save, Replace and Delete
\* on a type with an empty identity set hand no statement to the connection
\* and return the missing-identity error from the call itself (the error of
\* a failing before-hook, which runs first, takes precedence).
C16_EmptyIdentitySetFailsTheCall ==
    op \in WriteOps =>
        /\ [i \in 1..Len(IdFields) |-> IdFields[i].name] = IdentitySet(typ)
        /\ typ = "CompositeIDObject" => IdentitySet(typ) = <<"ID1", "ID2">>
        /\ typ = "AuditObject" => IdentitySet(typ) = <<"Code">>
        /\ typ = "SimpleObject" => IdentitySet(typ) = <<"ID">>
        /\ typ \in {"HiddenIDObject", "DupObject"} => IdentitySet(typ) = <<>>
        /\ IdentitySet(typ) = <<>> =>
              /\ pc = "done"
              /\ Stmts(trace) = <<>>
              /\ input = given
              /\ ~BeforeHookFailed => ret = MissingIdentityError(op)
        /\ ret = MissingIdentityError(op) => IdentitySet(typ) = <<>>

\* A delete on a type whose only flagged field is excluded has returned the
\* missing-identity error after its before-hook ran without error.
C16_Witness ==
    /\ op = "delete"
    /\ typ = "HiddenIDObject"
    /\ pc = "done"
    /\ trace # <<>>
    /\ ~BeforeHookFailed
    /\ ret = <<"DeleteRecord: couldn't determine ID field(s)">>

-----------------------------------------------------------------------------
(* Excluded fields *)

Excluded(t) ==
    LET skipped(f) == f.sql = "-"
    IN SelectSeq(Descriptions[t].fields, skipped)

\* ScanRows leaves the excluded fields of every record it decodes at the zero
\* value of the fresh record: no result column was bound to them.
ExcludedNeverBound ==
    (ScanReturned /\ ret = Nil) =>
        \A i \in 1..Len(out) :
            \A k \in 1..Len(Excluded(typ)) : out[i][Excluded(typ)[k].name] = 0

\* No excluded field is a column or argument of an INSERT, INSERT OR REPLACE
\* or UPDATE, none is an identity field, and a Save whose record differs
\* from the snapshot in excluded fields only executes no UPDATE.
ExcludedNeverInStatements ==
    /\ (op \in {"create", "replace"} /\ Stmts(trace) # <<>>) =>
          /\ Stmts(trace)[1].text =
                TextUnder(parameterPrefix, op, typ, fetchID)
          /\ Len(Stmts(trace)[1].args)
                = Len(Persisted) - (IF fetchID THEN 1 ELSE 0)
    /\ UpdateIssued =>
          /\ Stmts(trace)[2].text =
                "update " \o TableOfCall \o " set "
                    \o Join(Terms(Changed, Len(IdFields) + 1), ", ")
                    \o " " \o where
          /\ Len(Stmts(trace)[2].args) = Len(IdFields) + Len(Changed)
    /\ op \in WriteOps => \A i \in 1..Len(IdFields) : IdFields[i].sql # "-"
    /\ (SnapshotFetched
          /\ \A i \in 1..Len(Persisted) :
                input[Persisted[i].name] = previous[Persisted[i].name])
         => ~UpdateIssued

\* C17: a field excluded with the column name `-` is never read or written:
\* ScanRows binds it to no result column, it is no column or argument of an
\* INSERT, INSERT OR REPLACE or UPDATE, it is never an identity field, and a
\* difference in its value adds nothing to the diff of Save.
C17_ExcludedFieldIsNeverTouched ==
    /\ ExcludedNeverBound
    /\ ExcludedNeverInStatements

-----------------------------------------------------------------------------
(* Identity fields and the diff of Save *)

IsIdentity(f) == \E i \in 1..Len(IdFields) : IdFields[i].name = f.name

\* The fields Save has to write that are not identity fields.
ChangedOutsideIdentity ==
    LET free(f) == ~IsIdentity(f) IN SelectSeq(Changed, free)

\* The snapshot carries the identity values the record was looked up with.
SnapshotHasSameIdentity ==
    \A i \in 1..Len(IdFields) :
        previous[IdFields[i].name] = input[IdFields[i].name]

\* C18: SaveRecord executes an UPDATE only if a non-identity field of the
\* record differs from the fetched snapshot, never when identity fields are
\* the only ones that differ, and no identity column is in the SET list.
C18_UpdateNeverSetsIdentity ==
    /\ UpdateIssued =>
          /\ \E i \in 1..Len(Persisted) :
                /\ ~IsIdentity(Persisted[i])
                /\ input[Persisted[i].name] # previous[Persisted[i].name]
          /\ Stmts(trace)[2].text =
                "update " \o TableOfCall \o " set "
                    \o Join(Terms(ChangedOutsideIdentity, Len(IdFields) + 1),
                            ", ")
                    \o " " \o where
    /\ (SnapshotFetched /\ ChangedOutsideIdentity = <<>>) => ~UpdateIssued

\* With a snapshot that carries the identity it was looked up with, the
\* UPDATE is executed exactly when a writable non-identity field differs and
\* its SET list holds no identity column.
UpdateWithFaithfulSnapshot ==
    (SnapshotFetched /\ SnapshotHasSameIdentity) => C18_UpdateNeverSetsIdentity

-----------------------------------------------------------------------------
(* SaveRecordWithTransaction *)

TxReturned == op = "savetx" /\ pc = "done"

TxEnds == {"commit", "commit failed", "rollback"}

\* What holds of the transaction in every state.
TxState ==
    /\ txlog # <<>> => txlog[1] = "begin"
    /\ \A i \in 2..Len(txlog) : txlog[i] \in TxEnds
    /\ Len(txlog) <= 2
    /\ Stmts(trace) # <<>> => txlog # <<>>
    /\ (op = "save" /\ pc # "done") => TxOpen
    /\ TxReturned =>
          /\ txlog = <<>> =>
                /\ trace = <<>>
                /\ ret = <<"SaveRecordWithTransaction: couldn't open a transaction",
                           "begin error">>
          /\ txlog # <<>> => Len(txlog) = 2
          /\ ret = Nil <=> txlog = <<"begin", "commit">>
          /\ (ret # Nil /\ txlog # <<>>) =>
                /\ txlog[2] \in {"rollback", "commit failed"}
                /\ txlog[2] = "commit failed" =>
                      ret = <<"SaveRecordWithTransaction: couldn't commit transaction",
                              "commit error">>

\* The step from the return of SaveRecord to the return of the wrapper: a
\* failed SaveRecord is rolled back and its error returned wrapped, a
\* successful one leads to the one commit attempt; no statement follows.
TxStep ==
    (op = "save" /\ op' = "savetx") =>
        /\ trace' = trace
        /\ input' = input
        /\ ret # Nil =>
              /\ ret' = Wrap("SaveRecordWithTransaction", ret)
              /\ txlog' = <<"begin", "rollback">>
        /\ ret = Nil => txlog' # <<"begin", "rollback">> \/ ret' # Nil

\* C19: SaveRecordWithTransaction begins one transaction and runs
\* SaveRecord in it; when the transaction cannot be begun no statement is
\* executed; when SaveRecord fails the transaction is rolled back, not
\* committed, and the error is returned wrapped; when the commit fails an
\* error is returned and nothing is committed; on success the transaction
\* is committed once and the rollback on exit does not reach it.  On every
\* path a begun transaction ends by exactly one of commit or rollback.
C19_TransactionEndsExactlyOnce ==
    /\ []TxState
    /\ [][TxStep]_vars

\* SaveRecord has executed its UPDATE inside the transaction and the wrapper
\* has committed it and returned success.
C19_Witness ==
    /\ TxReturned
    /\ ret = Nil
    /\ txlog = <<"begin", "commit">>
    /\ Len(Stmts(trace)) = 2

\* SaveRecord has failed on its UPDATE and the wrapper has rolled back.
TxRolledBackAfterFailure ==
    /\ TxReturned
    /\ txlog = <<"begin", "rollback">>
    /\ ret = <<"SaveRecordWithTransaction", "SaveRecord", "exec error">>

-----------------------------------------------------------------------------
(* ReplaceRecord *)

\* C20: ReplaceRecord executes exactly one statement,
\* `insert or replace into <table> (<columns>) values (<placeholders>)`,
\* with every non-excluded field in declared order as its columns, the
\* identity fields among them whatever their value, the placeholders
\* numbered 1..n and the field values as arguments in the same order; it
\* issues no identity fetch and leaves the record as it was passed.
C20_ReplaceWritesEveryColumnOnce ==
    op = "replace" =>
        LET st == Stmts(trace)
            n == Len(Persisted)
        IN /\ input = given
           /\ Len(st) <= 1
           /\ (~BeforeHookFailed /\ IdFields # <<>>) => Len(st) = 1
           /\ st # <<>> =>
                 /\ st[1].k = "exec"
                 /\ st[1].text =
                       "insert or replace into " \o TableOfCall \o " ("
                           \o Join(ColumnsOf(Persisted), ", ") \o ") values ("
                           \o Join(Numbered(parameterPrefix, n), ", ") \o ")"
                 /\ st[1].args = ValuesOf(Persisted, given)
                 /\ \A i \in 1..Len(IdFields) :
                       \E j \in 1..n :
                          /\ Persisted[j].name = IdFields[i].name
                          /\ st[1].args[j] = given[IdFields[i].name]

\* A replace of a record whose ID is zero has returned success: the one
\* statement carries the id column and the zero as its first argument.
C20_Witness ==
    /\ op = "replace"
    /\ pc = "done"
    /\ ret = Nil
    /\ typ = "SimpleObject"
    /\ given["ID"] = 0
    /\ given["Name"] = 1
    /\ Len(Stmts(trace)) = 1
    /\ Stmts(trace)[1].text =
          "insert or replace into simple_objects (id, name, email) "
              \o "values ($1, $2, $3)"
    /\ Stmts(trace)[1].args[1] = 0

-----------------------------------------------------------------------------
(* A failing row *)

\* ScanRows has returned the error of rows.Scan or of OverrideScan.
RowFailed ==
    /\ ScanReturned
    /\ \/ ret = Wrap("ScanRows", <<"scan error">>)
       \/ ret = Wrap("could not get scanner overrides", <<"override error">>)

\* The decodings of the first n rows of the result set, in row order.
DecodedUpTo(n) ==
    [i \in 1..n |-> DecodedRow(typ, cursor.columns, cursor.rows[i])]

\* C21: when a row of the result set fails to scan after earlier rows were
\* decoded, ScanRows returns the error at once, reading no further row, and
\* the caller's output sequence holds the rows decoded before the failure.
C21_RowsBeforeTheFailureAreRetained ==
    RowFailed =>
        LET n == Len(cursor.rows)
            scans == LET isScan(e) == e.name = "Scan" IN SelectSeq(trace, isScan)
        IN /\ Len(scans) <= n
           /\ Len(out) >= n - 1
           /\ SubSeq(out, Len(out) - (n - 1) + 1, Len(out)) = DecodedUpTo(n - 1)

\* When a row fails ScanRows returns at once and the caller's output
\* sequence is what it was before the call: no decoded row reaches it.
RowFailureLeavesOutputAsPassed ==
    RowFailed =>
        /\ out = given
        /\ Last(trace).name \in {"Scan", "OverrideScan"}

-----------------------------------------------------------------------------
(* The description cache under concurrent first use *)

\* No access has overlapped a store, no two stores are under way at once,
\* and every caller that got a description got one of its type.
CacheIsSound ==
    /\ fault = "none"
    /\ \A a, b \in Callers : (Storing(a) /\ Storing(b)) => a = b
    /\ \A c \in Callers :
          callers[c].pc = "done" => callers[c].got.of = callers[c].typ

\* A stored entry stays: it is neither removed nor replaced by the
\* description of another type.
EntryStays ==
    \A t \in CacheTypes :
        descriptionCache[t] # NoEntry => descriptionCache'[t].of = t

\* C22: when several callers ask at once for the description of types not
\* yet cached, populating the cache is safe: no interleaving of the
\* unsynchronised lookup and store reaches a conflicting concurrent access
\* or a corrupted map, every caller gets a description of its type, and a
\* stored entry is never replaced by another value nor removed.
C22_CachePopulationIsSafe ==
    /\ []CacheIsSound
    /\ [][EntryStays]_vars

-----------------------------------------------------------------------------
(* The override-scan capability *)

CallsNamed(n) == LET hit(e) == e.name = n IN SelectSeq(trace, hit)

\* The declared name of the field each result column resolved to.
ResolvedNames ==
    [i \in 1..Len(cursor.columns) |->
        ResolveColumn(Descriptions[typ], cursor.columns[i])[1]]

\* ScanRows has read rows: every column resolved and the call returned.
RowsRead ==
    /\ ScanReturned
    /\ MissingColumns(Descriptions[typ], cursor.columns) = <<>>

OverrideFailed ==
    ret = Wrap("could not get scanner overrides", <<"override error">>)

\* C23: for a type with the override-scan capability ScanRows calls
\* OverrideScan once per row, with one field name per result column in
\* column order and as many empty slots; the target of a column is the
\* custom target when its slot was filled and the address of the resolved
\* field otherwise; when OverrideScan fails decoding stops with its error
\* before the row is scanned.  For a type without the capability
\* OverrideScan is not called and every target is the field's address.
C23_OverrideScanOncePerRow ==
    RowsRead =>
        LET n == Len(cursor.rows)
            ov == CallsNamed("OverrideScan")
            sc == CallsNamed("Scan")
            names == ResolvedNames
        IN /\ Len(trace) = Len(ov) + Len(sc)
           /\ Len(sc) = IF OverrideFailed THEN n - 1 ELSE n
           /\ \A i \in 1..Len(sc) : Len(sc[i].args) = Len(names)
           /\ Descriptions[typ].override =>
                 /\ Len(ov) = n
                 /\ \A i \in 1..Len(trace) :
                       trace[i].name =
                           (IF i % 2 = 1 THEN "OverrideScan" ELSE "Scan")
                 /\ \A i \in 1..Len(ov) :
                       /\ ov[i].args[1] = names
                       /\ ov[i].args[2] = [j \in 1..Len(names) |-> FALSE]
                 /\ \A i \in 1..Len(sc) : \A j \in 1..Len(names) :
                       /\ sc[i].args[j].field = names[j]
                       /\ sc[i].args[j].kind =
                             (IF OverrideSlots(names)[j] THEN "custom"
                              ELSE "field")
                 /\ OverrideFailed => Last(trace).name = "OverrideScan"
           /\ ~Descriptions[typ].override =>
                 /\ ov = <<>>
                 /\ ~OverrideFailed
                 /\ \A i \in 1..Len(sc) : \A j \in 1..Len(names) :
                       sc[i].args[j] = [kind |-> "field", field |-> names[j]]

\* Two rows of an OverrideObject were decoded: OverrideScan ran before each
\* rows.Scan, and the column of Value was scanned into the custom target.
C23_Witness ==
    /\ RowsRead
    /\ typ = "OverrideObject"
    /\ ret = Nil
    /\ cursor.columns = <<"value", "id">>
    /\ Len(cursor.rows) = 2
    /\ Len(CallsNamed("OverrideScan")) = 2
    /\ CallsNamed("Scan")[2].args[1] = [kind |-> "custom", field |-> "Value"]
    /\ CallsNamed("Scan")[2].args[2] = [kind |-> "field", field |-> "ID"]

\* OverrideScan failed on the second row, which was not scanned.
OverrideFailedOnSecondRow ==
    /\ RowsRead
    /\ OverrideFailed
    /\ Len(cursor.rows) = 2
    /\ Len(CallsNamed("Scan")) = 1

-----------------------------------------------------------------------------
(* The order of the steps of SaveRecord and CreateRecord *)

IsStep(e) == e.k = "hook" \/ IsStmt(e)

\* The hooks run and the statements handed to the connection, in the order
\* the call made them.
Steps == SelectSeq(trace, IsStep)

StepLabel(e) == IF e.k = "hook" THEN e.name ELSE e.k

StepLabels == [i \in 1..Len(Steps) |-> StepLabel(Steps[i])]

IsPrefix(a, b) == Len(a) <= Len(b) /\ SubSeq(b, 1, Len(a)) = a

HookStep(name) == IF Descriptions[typ].hooks THEN <<name>> ELSE <<>>

\* BeforeSave, snapshot SELECT, UPDATE, AfterSave.
SaveOrder ==
    HookStep("BeforeSave") \o <<"query", "exec">> \o HookStep("AfterSave")

\* BeforeCreate, INSERT, identity fetch when it is due, AfterCreate.
CreateOrder ==
    HookStep("BeforeCreate") \o <<"exec">>
        \o (IF fetchID THEN <<"queryrow">> ELSE <<>>)
        \o HookStep("AfterCreate")

\* The step the returned error belongs to, "" when it is none of a step.
FailedStep ==
    IF ret = Nil \/ pc # "done" THEN ""
    ELSE IF ret[1] \in {"SaveRecord: BeforeSave callback returned an error",
                        "CreateRecord: BeforeCreate callback returned an error",
                        "SaveRecord: AfterSave callback returned an error",
                        "CreateRecord: AfterCreate callback returned an error"}
    THEN "hook"
    ELSE IF ret[1] = "SaveRecord: couldn't find record" THEN "query"
    ELSE IF ret[1] = "CreateRecord: couldn't fetch insert id" THEN "queryrow"
    ELSE IF ret[1] \in {"SaveRecord", "CreateRecord"} THEN "exec"
    ELSE ""

\* C24: within one SaveRecord call the steps run in the order BeforeSave,
\* snapshot SELECT, UPDATE, AfterSave, and within one CreateRecord call in
\* the order BeforeCreate, INSERT, identity fetch (when it is due),
\* AfterCreate; each step runs at most once, and no step runs after an
\* earlier one failed.
C24_StepsRunInOrder ==
    op \in {"save", "create"} =>
        /\ IsPrefix(StepLabels, IF op = "save" THEN SaveOrder ELSE CreateOrder)
        /\ \A i \in 1..Len(Steps) :
              (Steps[i].k = "hook" /\ Steps[i].err # Nil) =>
                  /\ i = Len(Steps)
                  /\ pc = "done"
                  /\ FailedStep = "hook"
        /\ FailedStep # "" =>
              /\ Steps # <<>>
              /\ Last(Steps).k = FailedStep
              /\ FailedStep = "hook" => Last(Steps).err # Nil
        /\ pc = "create_fetchid" \/ (pc = "done" /\ op = "create"
                                       /\ FailedStep = "queryrow")
              => Last(Steps).text = LastInsertQuery

\* A SaveRecord of a type with hooks ran all four steps and returned nil.
C24_Witness ==
    /\ op = "save"
    /\ pc = "done"
    /\ ret = Nil
    /\ StepLabels = <<"BeforeSave", "query", "exec", "AfterSave">>

\* A CreateRecord of a type with hooks ran all four steps and returned nil.
CreateRanAllSteps ==
    /\ op = "create"
    /\ pc = "done"
    /\ ret = Nil
    /\ StepLabels = <<"BeforeCreate", "exec", "queryrow", "AfterCreate">>

\* The UPDATE failed: the call returned without running AfterSave.
UpdateFailedLast ==
    /\ op = "save"
    /\ Descriptions[typ].hooks
    /\ FailedStep = "exec"
    /\ StepLabels = <<"BeforeSave", "query", "exec">>

-----------------------------------------------------------------------------
(* Failures of the connection and the cursor during FindWhere *)

FindWhereReturnedDone == op = "find" /\ pc = "done"

\* The cursor of the call failed: while advancing, on close, or on a row it
\* delivered.
CursorFailed ==
    \/ cursor.fail \in {"next", "close"}
    \/ cursor.fail = "scan" /\ cursor.rows # <<>>
    \/ /\ cursor.fail = "override"
       /\ cursor.rows # <<>>
       /\ Descriptions[typ].override

\* C25: every failure of the connection or the cursor during FindWhere is
\* returned as an error (the query failing, a row scan failing, the cursor
\* failing while advancing, close failing): FindWhere does not return
\* success when the cursor failed.
C25_FindWhereReturnsEveryFailure ==
    (FindWhereReturnedDone /\ CursorFailed) => ret # Nil

\* What holds instead: FindWhere returns success after a cursor failure
\* exactly when the cursor broke while advancing and every column it
\* delivered resolved; the rows it delivered before are then the result.
OnlyTheAdvanceFailureIsLost ==
    (FindWhereReturnedDone /\ CursorFailed) =>
        (ret = Nil <=>
            /\ cursor.fail = "next"
            /\ MissingColumns(Descriptions[typ], cursor.columns) = <<>>)

\* FindWhere returned nil with one row although the cursor broke after it.
AdvanceFailureReturnedAsSuccess ==
    /\ FindWhereReturnedDone
    /\ cursor.fail = "next"
    /\ ret = Nil
    /\ Len(cursor.rows) = 1
    /\ Len(out) = Len(given) + 1

-----------------------------------------------------------------------------
(* The binding of result columns to fields *)

\* The field the first matching step gives for a column: by column-name
\* annotation, then by declared name, then by derived snake-case name;
\* <<>> when no step matches.
FirstMatch(t, name) ==
    LET l == Descriptions[t].fields
        annotated(f) == f.sql = name
        declared(f) == f.name = name
        derived(f) == CamelToSnake(f.name) = name
        a == SelectSeq(l, annotated)
        d == SelectSeq(l, declared)
        s == SelectSeq(l, derived)
    IN IF a # <<>> THEN <<a[1].name>>
       ELSE IF d # <<>> THEN <<d[1].name>>
       ELSE IF s # <<>> THEN <<s[1].name>>
       ELSE <<>>

\* The columns the returned missing-columns error lists.
ReportedMissing ==
    IF IsMissingError(ret)
    THEN MissingColumns(Descriptions[typ], cursor.columns)
    ELSE <<>>

IsReportedMissing(name) ==
    \E i \in 1..Len(ReportedMissing) : ReportedMissing[i] = name

\* Column j of the result set is bound as the first matching step says, in
\* every rows.Scan of the call, and is not reported missing when a step
\* matches.
BoundToFirstMatch(j) ==
    LET name == cursor.columns[j]
        sc == CallsNamed("Scan")
    IN /\ IsMissingError(ret) => ret = MissingError(typ, ReportedMissing)
       /\ FirstMatch(typ, name) # <<>> => ~IsReportedMissing(name)
       /\ \A i \in 1..Len(sc) :
             <<sc[i].args[j].field>> = FirstMatch(typ, name)

\* C26: ScanRows binds each result column to the first field that matches
\* when trying in order the column-name annotation, the declared name and
\* the derived snake-case name; a column that matches at an earlier step is
\* not bound by a later one, and a column that matches at any step is not
\* reported missing.
C26_ColumnsBindToTheFirstMatch ==
    ScanReturned => \A j \in 1..Len(cursor.columns) : BoundToFirstMatch(j)

\* Several fields of the type carry the column's name as their annotation.
AmbiguousAnnotation(name) ==
    Len(WithTagValue(Descriptions[typ].fields, name)) > 1

\* What holds instead: the binding is the first match for every column
\* whose name is not the annotation of several fields.
UnambiguousColumnsBindToTheFirstMatch ==
    ScanReturned =>
        \A j \in 1..Len(cursor.columns) :
            ~AmbiguousAnnotation(cursor.columns[j]) => BoundToFirstMatch(j)

\* A column matched by annotation was reported missing.
AnnotatedColumnReportedMissing ==
    /\ ScanReturned
    /\ \E j \in 1..Len(cursor.columns) :
          /\ WithTagValue(Descriptions[typ].fields, cursor.columns[j]) # <<>>
          /\ IsReportedMissing(cursor.columns[j])

\* Rows were scanned with a column bound by its declared name and another
\* by its annotation.
BoundByAnnotationAndByName ==
    /\ ScanReturned
    /\ ret = Nil
    /\ cursor.rows # <<>>
    /\ \E i, j \in 1..Len(cursor.columns) :
          /\ WithTagValue(Descriptions[typ].fields, cursor.columns[i]) # <<>>
          /\ WithTagValue(Descriptions[typ].fields, cursor.columns[j]) = <<>>
          /\ FieldNamed(Descriptions[typ].fields, cursor.columns[j]) # <<>>

-----------------------------------------------------------------------------
(* The fragment qsorm renders *)

QFind == qsorm.fn \in {"FindWhere", "FindFirstWhere"}

\* The call's predicate failed to render.
RenderFailed == qsorm.where # <<>> /\ qsorm.where[1].err # Nil

\* The pieces written, the separating blanks left out.
Content == LET inked(p) == p # " " IN SelectSeq(qsorm.d, inked)

\* The terms of the call, comma-separated in the given order.
TermList ==
    LET o == qsorm.order
        l[i \in 0..Len(o)] ==
            IF i = 0 THEN <<>>
            ELSE l[i - 1] \o (IF i > 1 THEN <<", ">> ELSE <<>>)
                          \o <<o[i].text>>
    IN l[Len(o)]

\* `where <predicate>`, `order by <terms>` and the offset/limit, each only
\* when the call gives it.
ExpectedContent ==
    (IF qsorm.where # <<>> THEN <<"where ", qsorm.where[1].text>> ELSE <<>>)
        \o (IF qsorm.order # <<>> THEN <<"order by ">> \o TermList ELSE <<>>)
        \o (IF qsorm.offsetLimit # <<>> THEN <<qsorm.offsetLimit[1].text>>
            ELSE <<>>)

\* The values of the clauses, flattened in clause order.
ExpectedArgs ==
    LET o == qsorm.order
        l[i \in 0..Len(o)] == IF i = 0 THEN <<>> ELSE l[i - 1] \o o[i].args
    IN (IF qsorm.where # <<>> THEN qsorm.where[1].args ELSE <<>>)
           \o l[Len(o)]
           \o (IF qsorm.offsetLimit # <<>> THEN qsorm.offsetLimit[1].args
               ELSE <<>>)

\* Piece i begins a clause.
BeginsClause(i) ==
    \/ qsorm.d[i] \in {"where ", "order by "}
    \/ qsorm.offsetLimit # <<>> /\ i = Len(qsorm.d)

\* A clause that follows another is set off from it by a blank.
ClausesSeparated ==
    \A i \in 2..Len(qsorm.d) : BeginsClause(i) => qsorm.d[i - 1] = " "

\* The fragment and the values went to the sorm operation of the same name:
\* they are its locals and those of the statement it executed.
Delegated ==
    /\ op = (IF qsorm.fn = "FindWhere" THEN "find" ELSE "findfirst")
    /\ where = Join(qsorm.d, "")
    /\ values = ExpectedArgs
    /\ query = FindQuery(Descriptions[typ],
                         IF qsorm.fn = "FindWhere" THEN where
                         ELSE FirstWhere(where))
    /\ Len(Stmts(trace)) = 1
    /\ Stmts(trace)[1].text = query
    /\ Stmts(trace)[1].args = values

NothingGiven ==
    qsorm.where = <<>> /\ qsorm.order = <<>> /\ qsorm.offsetLimit = <<>>

RenderErrorReturned ==
    /\ pc = "done"
    /\ ret = qsorm.where[1].err
    /\ trace = <<>>

\* Everything of the fragment but the separation of the clauses.
RenderedAsGiven ==
    IF RenderFailed THEN RenderErrorReturned
    ELSE /\ Content = ExpectedContent
         /\ Delegated
         /\ NothingGiven => where = ""

\* C27: qsorm.FindWhere and qsorm.FindFirstWhere render `where <predicate>`
\* only when a predicate is given, `order by <terms>` only when there is a
\* term (one `order by`, the terms comma-separated in the given order) and
\* the offset/limit only when given, consecutive clauses separated from each
\* other, and pass the fragment with the flattened values in clause order
\* to the sorm operation of the same name; with nothing given the fragment
\* is empty; a render error is returned and no statement is executed.
C27_FragmentHasTheGivenClausesSeparated ==
    QFind => /\ RenderedAsGiven
             /\ ~RenderFailed => ClausesSeparated

\* What holds instead: everything but the separation holds of both, and
\* the clauses are separated except in FindFirstWhere called with a
\* predicate and an ordering term.
OnlyFindFirstRunsClausesTogether ==
    QFind =>
        /\ RenderedAsGiven
        /\ ~RenderFailed =>
              (ClausesSeparated <=>
                  ~(/\ qsorm.fn = "FindFirstWhere"
                    /\ qsorm.where # <<>>
                    /\ qsorm.order # <<>>))

\* FindWhere was called with all three clauses and two terms.
FindWhereWithAllClauses ==
    /\ qsorm.fn = "FindWhere"
    /\ pc = "done"
    /\ ret = Nil
    /\ where = "where id = ? order by name , id = ? desc limit ? offset ?"
    /\ values = <<1, 0, 1, 0>>

\* FindFirstWhere ran the predicate and `order by` together.
FindFirstRanClausesTogether ==
    /\ qsorm.fn = "FindFirstWhere"
    /\ query = "select * from simple_objects where id = ?order by name limit 1"

\* The predicate failed to render and the call returned its error.
RenderErrorSeen == QFind /\ RenderFailed /\ RenderErrorReturned

-----------------------------------------------------------------------------
(* When AfterSave runs *)

IsAfterSave(e) == e.k = "hook" /\ e.name = "AfterSave"

AfterSaveRan == \E i \in 1..Len(trace) : IsAfterSave(trace[i])

SaveReturned == op = "save" /\ pc = "done"

\* The save was a no-op: the snapshot was fetched and no field differed.
SaveWasNoOp == SaveReturned /\ ret = Nil /\ Len(Stmts(trace)) = 1

\* The snapshot fetch found no row or failed.
SnapshotFetchFailed ==
    SaveReturned /\ ret # Nil /\ ret[1] = "SaveRecord: couldn't find record"

UpdateFailed == SaveReturned /\ ret = Wrap("SaveRecord", <<"exec error">>)

\* C28: SaveRecord invokes AfterSave only after an UPDATE was executed
\* successfully: not when the save is a no-op, not when the snapshot fetch
\* returns no row or fails (SaveRecord then returns an error and executes no
\* UPDATE), and not when the UPDATE fails.
C28_AfterSaveOnlyAfterASuccessfulUpdate ==
    op = "save" =>
        /\ AfterSaveRan =>
              /\ SaveReturned
              /\ IsAfterSave(Last(trace))
              /\ Len(Stmts(trace)) = 2
              /\ Stmts(trace)[2].k = "exec"
              /\ ret = AfterHookResult(
                          "SaveRecord: AfterSave callback returned an error",
                          Last(trace).err)
        /\ (SaveWasNoOp \/ SnapshotFetchFailed \/ UpdateFailed) =>
              ~AfterSaveRan
        /\ SnapshotFetchFailed => Len(Stmts(trace)) = 1
        /\ (SaveReturned /\ Descriptions[typ].hooks /\ Len(Stmts(trace)) = 2
               /\ ~UpdateFailed) => AfterSaveRan

\* AfterSave ran after the UPDATE of a changed field succeeded.
C28_Witness ==
    /\ SaveReturned
    /\ AfterSaveRan
    /\ Last(trace).err = Nil
    /\ previous # input

\* The three ways a save of a type with hooks ends without AfterSave.
NoOpSkippedAfterSave ==
    SaveWasNoOp /\ Descriptions[typ].hooks /\ ~AfterSaveRan

NoRowSkippedAfterSave ==
    /\ SnapshotFetchFailed
    /\ Descriptions[typ].hooks
    /\ ret = Wrap("SaveRecord: couldn't find record", ErrNoRows)

FailedUpdateSkippedAfterSave ==
    UpdateFailed /\ Descriptions[typ].hooks /\ ~AfterSaveRan

-----------------------------------------------------------------------------
(* The placeholder prefix within one SaveRecord *)

\* `column = placeholder` for the fields fs under the configured prefix p,
\* numbered first, first + 1, ...
TermsFrom(p, fs, first) ==
    [i \in 1..Len(fs) |->
        getSQLColumnName(fs[i]) \o " = "
            \o Numbered(p, first + i - 1)[first + i - 1]]

WhereUnder(p) == "where " \o Join(TermsFrom(p, IdFields, 1), " and ")

\* The snapshot SELECT and the UPDATE of the save in flight with every
\* placeholder under the configured prefix p.
SnapshotSelectUnder(p) ==
    "select * from " \o TableOfCall \o " " \o WhereUnder(p) \o " limit 1"

UpdateUnder(p) ==
    "update " \o TableOfCall \o " set "
        \o Join(TermsFrom(p, Changed, Len(IdFields) + 1), ", ")
        \o " " \o WhereUnder(p)

\* C29: every statement SaveRecord executes uses one single prefix for all
\* of its placeholders, those of the WHERE and those of the SET list of the
\* UPDATE alike, also when SetParameterPrefix is called by another caller
\* while the SaveRecord is in flight.
C29_OnePrefixPerStatement ==
    op = "save" =>
        \A i \in 1..Len(Stmts(trace)) :
            \E p \in Prefixes :
                Stmts(trace)[i].text =
                    (IF i = 1 THEN SnapshotSelectUnder(p) ELSE UpdateUnder(p))

\* An UPDATE whose SET list and WHERE carry different prefixes.
UpdateWithMixedPrefixes ==
    /\ op = "save"
    /\ typ = "SimpleObject"
    /\ Len(Stmts(trace)) = 2
    /\ Stmts(trace)[2].text
          = "update simple_objects set name = ?2 where id = $1"

\* What holds instead: the WHERE of the UPDATE is the WHERE of the snapshot
\* SELECT, built before the fetch, whatever the prefix is afterwards.
UpdateReusesTheWhereOfTheSelect ==
    (op = "save" /\ Len(Stmts(trace)) = 2) =>
        \E p \in Prefixes :
            /\ Stmts(trace)[1].text = SnapshotSelectUnder(p)
            /\ where = WhereUnder(p)
            /\ \E q \in Prefixes :
                  Stmts(trace)[2].text =
                      "update " \o TableOfCall \o " set "
                          \o Join(TermsFrom(q, Changed, Len(IdFields) + 1),
                                  ", ")
                          \o " " \o where

-----------------------------------------------------------------------------
(* The before-hook and the validation of the input *)

IsBeforeHook(e) == e.k = "hook" /\ e.name = "Before" \o HookNoun(op)

BeforeHookCalls == SelectSeq(trace, IsBeforeHook)

\* The input of the call is not a pointer to a struct.
InvalidInput == Kind(typ) # "ptr" \/ ElemKind(typ) # "struct"

InvalidInputError ==
    IF Kind(typ) # "ptr"
    THEN <<OpName(op) \o ": expected input to be a pointer; was instead "
               \o Kind(typ)>>
    ELSE <<OpName(op) \o ": expected input to be pointer to struct; "
               \o "was instead pointer to " \o ElemKind(typ)>>

\* C30: in every call of Create, Save, Replace or Delete with an input that
\* implements the before-hook the hook is invoked exactly once, before the
\* input is validated and its description resolved: a call that fails
\* because the input is not a pointer to a struct, or because the type has
\* no identity field, has run the before-hook and executed no statement.
C30_BeforeHookRunsBeforeValidation ==
    (op \in WriteOps /\ Descriptions[typ].hooks) =>
        /\ Len(BeforeHookCalls) = 1
        /\ IsBeforeHook(trace[1])
        /\ (pc = "done" /\ InvalidInput) =>
              /\ trace = <<HookCall("Before" \o HookNoun(op), trace[1].err)>>
              /\ ret = (IF trace[1].err # Nil
                        THEN HookError(op, "Before", trace[1].err)
                        ELSE InvalidInputError)
        /\ (pc = "done" /\ ~InvalidInput /\ IdFields = <<>>) =>
              /\ trace = <<HookCall("Before" \o HookNoun(op), trace[1].err)>>
              /\ ret = (IF trace[1].err # Nil
                        THEN HookError(op, "Before", trace[1].err)
                        ELSE MissingIdentityError(op))

\* A struct passed by value to SaveRecord: BeforeSave ran, then the call
\* failed on the input.
C30_Witness ==
    /\ op = "save"
    /\ typ = "HookedValue"
    /\ pc = "done"
    /\ trace = <<HookCall("BeforeSave", Nil)>>
    /\ ret = <<"SaveRecord: expected input to be a pointer; was instead struct">>

\* A pointer to an integer passed to DeleteRecord.
PointerToIntRanTheHook ==
    /\ op = "delete"
    /\ typ = "HookedInt"
    /\ pc = "done"
    /\ trace = <<HookCall("BeforeDelete", Nil)>>
    /\ ret = <<"DeleteRecord: expected input to be pointer to struct; "
                 \o "was instead pointer to int">>

\* A type without identity field passed to CreateRecord.
NoIdentityRanTheHook ==
    /\ op = "create"
    /\ typ = "HiddenIDObject"
    /\ pc = "done"
    /\ trace = <<HookCall("BeforeCreate", Nil)>>
    /\ ret = MissingIdentityError("create")
====
